---- MODULE Spec2Model ----
(***************************************************************************)
(* A model of the audio-reactive effect engine of the music visualizer:    *)
(*   - AudioEngine   (beat detector, analysis tick, start/stop)            *)
(*   - InstrumentClassifier (threshold ladder with a hold timer)           *)
(*   - SceneView     (effect selector, render tick)                        *)
(*   - CrystalSphere (four effect pools and their lifecycle)               *)
(*                                                                         *)
(* Fixed-point conventions (all quantities are integers):                  *)
(*   beat detector time      : milliseconds                                *)
(*   instantaneous energy    : units of 1e-4  (so 1e-8 is one unit^2)      *)
(*   sensitivity             : tenths                                      *)
(*   scene clocks            : units of 1/600 s                            *)
(*   life, phase, opacity    : units of 1/600                              *)
(*   band values, rms        : hundredths                                  *)
(***************************************************************************)
EXTENDS Integers, Sequences, FiniteSets

VARIABLES
  \* ---- AudioEngine: beat detector ----
  energyHistory,     \* number[]  rolling window of instantaneous energies
  lastBeatAt,        \* time of the last fired beat (ms)
  beatSensitivity,   \* 0..10 (tenths)
  nowSec,            \* audioContext.currentTime handed to detectBeat (ms)
  isBeat,            \* value returned by the most recent detectBeat call
  calls,             \* number of detectBeat calls made so far
  firedAt,           \* time of the most recent call that returned true, -1 if none
  prevFiredAt        \* time of the call that returned true before that one, -1 if none

VARIABLES
  \* ---- the page's clock (performance.now(), units of 1/600 s) ----
  clock,
  \* ---- InstrumentClassifier ----
  current,            \* the held label
  lastSwitchAt,       \* timeSec of the last accepted switch
  labelChangedAt,     \* timeSec of the most recent update whose returned label
                      \* differed from the label returned before it, -1 if none
  prevLabelChangedAt, \* the same for the change before that one, -1 if none
  \* ---- SceneView ----
  start,              \* performance.now() at construction
  last,               \* [rms, low, mid, high]: lastRms, lastLow, lastMid, lastHigh
  currentInstrument,
  lastEffectSwitchAt,
  postfxBloom,        \* PostFX.bloomPass.strength (hundredths)
  crystal,            \* the CrystalSphere: themeIndex, activeEffect, bloomStrength
                      \* and the four effect groups (pools)
  effectChangedAt,    \* clock of the most recent updateFromAudio call that
                      \* changed the active kind, -1 if none
  prevEffectChangedAt,\* the same for the change before that one, -1 if none
  audioOn             \* the audio source is publishing frames

VARIABLES
  audioContext,       \* "none", or the AudioContext's state: "suspended" / "running"
  analyser,           \* an AnalyserNode exists
  sourceNode,         \* "null", "created" (not yet started) or "started"
  sourceFile,         \* the file whose buffer this.sourceNode holds ("none" for null)
  orphans,            \* files of started sources this.sourceNode no longer refers to
  pendingFile,        \* this.pendingFile: "none" for null, or the remembered file
  startFile,          \* per start() call: the file whose bytes it awaits
  testOscillator,     \* this.testOscillator is set
  liveStream,         \* this.liveStream is set
  rafId,              \* this.rafId is not null
  frameQueue,         \* how many callbacks for tick the display's frame queue holds
  rafIdQueued,        \* the callback this.rafId names is still in that queue
  tickPc,             \* "delivering" while tick() is inside its callback loop
  callbacks,          \* this.callbacks: the subscribed callbacks, in insertion order
  deliveredTo,        \* the callbacks the most recent tick invoked, in call order
  startPc,            \* per start() call: where it is suspended
  tonePc,             \* where the outstanding startTestTone() call is suspended
  streamPc,           \* where the outstanding startFromMediaStream() call is suspended
  halted              \* stop() has returned and no start call was made since

engineVars == <<audioContext, analyser, sourceNode, sourceFile, orphans, pendingFile,
                startFile, testOscillator, deliveredTo,
                liveStream, rafId, frameQueue, rafIdQueued, tickPc, callbacks, startPc,
                tonePc, streamPc, halted>>

VARIABLES
  freqData,           \* the frequency-magnitude buffer of the last analysis (bytes)
  timeData,           \* the time-domain buffer of the last analysis (bytes)
  features            \* what the extractor functions returned for them

extractorVars == <<freqData, timeData, features>>

VARIABLES
  ladderArgs,         \* the arguments of a chooseEffect call
  ladderResult              \* what the call returned ("null" for null)

ladderVars == <<ladderArgs, ladderResult>>

beatVars == <<energyHistory, lastBeatAt, beatSensitivity, nowSec, isBeat, calls,
              firedAt, prevFiredAt>>

classifierVars == <<current, lastSwitchAt, labelChangedAt, prevLabelChangedAt>>

sceneVars == <<start, last, currentInstrument, lastEffectSwitchAt, postfxBloom,
               crystal, effectChangedAt, prevEffectChangedAt, audioOn>>

vars == <<beatVars, clock, classifierVars, sceneVars, engineVars, extractorVars, ladderVars>>

\* ---------------------------------------------------------------- helpers

Max(a, b) == IF a >= b THEN a ELSE b
Min(a, b) == IF a <= b THEN a ELSE b

RECURSIVE SumSeq(_)
SumSeq(s) == IF s = <<>> THEN 0 ELSE Head(s) + SumSeq(Tail(s))

RECURSIVE SumSquares(_)
SumSquares(s) == IF s = <<>> THEN 0 ELSE Head(s) * Head(s) + SumSquares(Tail(s))

\* ------------------------------------------------------------ bounds

MaxCalls == 10                \* detectBeat calls per behaviour
Energies == {0, 20}            \* instantaneous energies fed to the detector
TimeSteps == {60, 61}          \* ms elapsed between consecutive detectBeat calls
SensInputs == {-5, 15}         \* arguments of setBeatSensitivity (tenths)

\* ------------------------------------------------- AudioEngine: beat detector

maxEnergyHistory == 43
minHistory == 8
minInterval == 120             \* 0.12 s
varianceFloor == 1             \* 1e-8

kTimes20_Inverted(sens) == 10 + 3 * sens

\* k = 2.0 - 1.5 * sensitivity, as a numerator over 20
kTimes20(sens) == 40 - 3 * sens

pushEnergy_EvictNewest(hist, energy) ==
  LET pushed == Append(hist, energy)
  IN IF Len(pushed) > maxEnergyHistory THEN SubSeq(pushed, 1, Len(pushed) - 1) ELSE pushed

\* this.energyHistory.push(energy); if (length > max) shift()
pushEnergy(hist, energy) ==
  LET pushed == Append(hist, energy)
  IN IF Len(pushed) > maxEnergyHistory THEN Tail(pushed) ELSE pushed

aboveThreshold_AtMean(hist, energy, sens) ==
  LET n == Len(hist)
      S == SumSeq(hist)
  IN n * energy - S >= 0

\* energy > mean + k * sqrt(max(variance, 1e-8)), with mean = S/n and
\* variance = (n*Q - S^2)/n^2, cleared of the division and the square root:
\* since k > 0 the comparison is (n*e - S) > 0 and
\* (n*e - S)^2 * 20^2 > (20k)^2 * max(n*Q - S^2, n^2 * floor).
aboveThreshold(hist, energy, sens) ==
  LET n == Len(hist)
      S == SumSeq(hist)
      Q == SumSquares(hist)
      d == n * energy - S
      nnVar == Max(n * Q - S * S, n * n * varianceFloor)
      k == kTimes20(sens)
  IN d > 0 /\ d * d * 400 > k * k * nnVar

canTrigger_Always(now, lastFired) == TRUE

canTrigger_AtInterval(now, lastFired) == now - lastFired >= minInterval

canTrigger(now, lastFired) == now - lastFired > minInterval

\* The value detectBeat returns for the window `hist` (already holding the
\* new sample).
beatDecision(hist, energy, now, lastFired, sens) ==
  IF Len(hist) < minHistory THEN FALSE
  ELSE canTrigger(now, lastFired) /\ aboveThreshold(hist, energy, sens)

setBeatSensitivity(s) ==
  /\ beatSensitivity' = Max(0, Min(10, s))
  /\ UNCHANGED <<energyHistory, lastBeatAt, nowSec, isBeat, calls, firedAt, prevFiredAt>>

detectBeat(energy, step) ==
  /\ calls < MaxCalls
  /\ LET now == nowSec + step
         hist == pushEnergy(energyHistory, energy)
         fire == beatDecision(hist, energy, now, lastBeatAt, beatSensitivity)
     IN /\ nowSec' = now
        /\ energyHistory' = hist
        /\ isBeat' = fire
        /\ lastBeatAt' = IF fire THEN now ELSE lastBeatAt
        /\ firedAt' = IF fire THEN now ELSE firedAt
        /\ prevFiredAt' = IF fire THEN firedAt ELSE prevFiredAt
        /\ calls' = calls + 1
        /\ UNCHANGED beatSensitivity

BeatInit ==
  /\ energyHistory = <<>>
  /\ lastBeatAt = 0
  /\ beatSensitivity = 6
  /\ nowSec = 0
  /\ isBeat = FALSE
  /\ calls = 0
  /\ firedAt = -1
  /\ prevFiredAt = -1

BeatNext ==
  \/ /\ \E e \in Energies, st \in TimeSteps : detectBeat(e, st)
     /\ UNCHANGED <<clock, classifierVars, sceneVars, engineVars, extractorVars, ladderVars>>
  \/ /\ \E s \in SensInputs : setBeatSensitivity(s)
     /\ UNCHANGED <<clock, classifierVars, sceneVars, engineVars, extractorVars, ladderVars>>


\* ------------------------------------------------------ band/energy extractor

\* A JavaScript number as the extractor returns it: a value, or NaN.
Num(v) == [nan |-> FALSE, v |-> v]
NaN == [nan |-> TRUE, v |-> 0]

MaxLen == 3                    \* longest buffer of the model
Bytes == {0, 128, 255}
BuffersOf(values) == UNION {[1..n -> values] : n \in 0..MaxLen}
Buffers == BuffersOf(Bytes)

\* floor(sqrt(x))
isqrt(x) == CHOOSE r \in 0..256 : r * r <= x /\ x < (r + 1) * (r + 1)

\* sqrt(sum((b/255)^2) / n) in hundredths, rounded down; 0 / 0 is NaN for
\* the empty buffer and Math.sqrt(NaN) is NaN.
computeRmsFromFreq(freq) ==
  LET n == Len(freq)
  IN IF n = 0 THEN NaN
     ELSE Num((isqrt(SumSquares(freq) \div n) * 100) \div 255)

\* average(arr, from, to), 0-based and exclusive of `to`, in hundredths.
average(arr, from, to) ==
  LET len == Max(1, to - from)
      sum == SumSeq(SubSeq(arr, from + 1, to))
  IN Num((sum * 100) \div (len * 255))

computeBands_EqualThirds(freq) ==
  LET n == Len(freq)
      oneThird == n \div 3
  IN [low |-> average(freq, 0, oneThird),
      mid |-> average(freq, oneThird, 2 * oneThird),
      high |-> average(freq, 2 * oneThird, 3 * oneThird)]

computeBands(freq) ==
  LET n == Len(freq)
      oneThird == n \div 3
  IN [low |-> average(freq, 0, oneThird),
      mid |-> average(freq, oneThird, 2 * oneThird),
      high |-> average(freq, 2 * oneThird, n)]

RECURSIVE SumCentredSquares(_)
SumCentredSquares(t) ==
  IF t = <<>> THEN 0
  ELSE (Head(t) - 128) * (Head(t) - 128) + SumCentredSquares(Tail(t))

\* sum(((b - 128) / 128)^2) / n in units of 1e-4; 0 / 0 is NaN.
computeInstantEnergy(t) ==
  LET n == Len(t)
  IN IF n = 0 THEN NaN
     ELSE Num((SumCentredSquares(t) * 10000) \div (n * 16384))

\* What tick() computes from the two buffers (lines 233-238).
extractFeatures(freq, t) ==
  LET bands == computeBands(freq)
  IN [rms |-> computeRmsFromFreq(freq), low |-> bands.low, mid |-> bands.mid,
      high |-> bands.high, energy |-> computeInstantEnergy(t)]

\* The extractor functions applied to the two buffers.
extract ==
  /\ features' = extractFeatures(freqData, timeData)
  /\ UNCHANGED <<freqData, timeData>>

\* An analysis tick on a constant signal: an all-zero frequency buffer, and
\* the time-domain buffer the previous tick saw (the first tick takes any
\* buffer holding one value throughout, 0 or mid-scale 128).
ZeroBuffers == BuffersOf({0}) \ {<<>>}
ConstantBuffers == (BuffersOf({0}) \cup BuffersOf({128})) \ {<<>>}

silentTick(freq, t, st) ==
  /\ timeData # <<>> => t = timeData /\ freq = freqData
  /\ freqData' = freq
  /\ timeData' = t
  /\ features' = extractFeatures(freq, t)
  /\ detectBeat(computeInstantEnergy(t).v, st)

NoFeatures ==
  [rms |-> Num(0), low |-> Num(0), mid |-> Num(0), high |-> Num(0), energy |-> Num(0)]

ExtractorInit ==
  /\ freqData = <<>>
  /\ timeData = <<>>
  /\ features = NoFeatures

\* Any pair of buffers of up to MaxLen bytes handed to the extractor.
ExtractorInputs ==
  /\ freqData \in Buffers
  /\ timeData \in Buffers
  /\ features = NoFeatures

\* ------------------------------------------------------------ feature frames

\* The feature frames the analysis tick publishes in this model (band values
\* and rms in hundredths), one per rung of the selector's ladder and silence.
Silence        == [rms |-> 0,  low |-> 0,  mid |-> 0,  high |-> 0,  beat |-> FALSE]
RiftFrame      == [rms |-> 40, low |-> 60, mid |-> 20, high |-> 10, beat |-> FALSE]
ResonanceFrame == [rms |-> 35, low |-> 20, mid |-> 60, high |-> 10, beat |-> FALSE]
PrismFrame     == [rms |-> 50, low |-> 20, mid |-> 60, high |-> 70, beat |-> FALSE]
SpikesFrame    == [rms |-> 30, low |-> 10, mid |-> 10, high |-> 60, beat |-> TRUE]
FallbackFrame  == [rms |-> 30, low |-> 30, mid |-> 30, high |-> 30, beat |-> FALSE]
BeatOnlyFrame  == [rms |-> 0,  low |-> 0,  mid |-> 0,  high |-> 0,  beat |-> TRUE]
HissFrame      == [rms |-> 30, low |-> 10, mid |-> 10, high |-> 70, beat |-> FALSE]

Frames == {Silence, RiftFrame, ResonanceFrame, PrismFrame, SpikesFrame, FallbackFrame}

\* ------------------------------------------------------ InstrumentClassifier

holdSeconds == 3000            \* 5 s

classifyInstant(rms, low, mid, high, beat) ==
  IF beat /\ high > 50 /\ mid < 60 THEN "drums"
  ELSE IF low > 45 /\ mid < 35 THEN "bass"
  ELSE IF mid > 50 /\ high < 50 THEN "guitar"
  ELSE "none"

holdElapsed_Absolute(timeSec, lastSw) == timeSec >= holdSeconds

holdElapsed(timeSec, lastSw) == timeSec - lastSw >= holdSeconds

\* InstrumentClassifier.update: the classifier's state after the call; the
\* call returns the new `current`.
classifierUpdate(cur, lastSw, timeSec, rms, low, mid, high, beat) ==
  LET proposed == classifyInstant(rms, low, mid, high, beat)
  IN IF proposed # cur /\ holdElapsed(timeSec, lastSw)
     THEN [current |-> proposed, lastSwitchAt |-> timeSec]
     ELSE [current |-> cur, lastSwitchAt |-> lastSw]

\* The classifier's variables after update(timeSec, ...), with the record of
\* the times at which the returned label changed.
classifierStep(timeSec, rms, low, mid, high, beat) ==
  LET r == classifierUpdate(current, lastSwitchAt, timeSec, rms, low, mid, high, beat)
  IN /\ current' = r.current
     /\ lastSwitchAt' = r.lastSwitchAt
     /\ labelChangedAt' = IF r.current # current THEN timeSec ELSE labelChangedAt
     /\ prevLabelChangedAt' =
          IF r.current # current THEN labelChangedAt ELSE prevLabelChangedAt

ClassifierInit ==
  /\ current = "none"
  /\ lastSwitchAt = 0
  /\ labelChangedAt = -1
  /\ prevLabelChangedAt = -1

\* One call of InstrumentClassifier.update, at a time not before the
\* previous call's.
InstrumentClassifier_update(f, step) ==
  /\ clock' = clock + step
  /\ classifierStep(clock' - start, f.rms, f.low, f.mid, f.high, f.beat)

\* -------------------------------------------------------------- CrystalSphere

\* An effect group (pool) is the sequence of its children in insertion
\* order.  A record stands for the instances one emission call created with
\* identical life-cycle fields: `id` identifies the emission call, `n` is the
\* number of instances.  Rings differ in delay, so each ring is a record of
\* its own, the k-th ring of its call: <<id, k>> is the ring's identity.
\*   ring  : [id, k, life, delay, opacity, scale]   scale in units of 1/6000
\*   ray   : [id, life, phase, opacity, n]
\*   spike : [id, life, opacity, n]
\*   batch : [id, opacity, particles, n]   particles: lives of sample particles

One == 600                     \* 1.0 in life / phase / opacity units
Dt == 10                       \* 1/60 s, the dt SceneView.animate passes
themeCount == 4                \* themes.length
ringDelay == 36                \* 0.06 s between staggered rings

MaxBatches == 2                \* emission calls whose instances a group holds

Kinds == {"resonance", "prism", "rift", "spikes"}

RECURSIVE SeqIds(_)
SeqIds(pool) == IF pool = <<>> THEN {} ELSE {Head(pool).id} \cup SeqIds(Tail(pool))

IdsOf(c) == SeqIds(c.resonance) \cup SeqIds(c.prism) \cup SeqIds(c.rift) \cup SeqIds(c.spikes)

\* A new emission's identity: one that no live instance and no instance
\* released in the running call (`old`) has.
FreshId(taken) ==
  CHOOSE i \in 1..(Cardinality(taken) + 1) :
    i \notin taken /\ \A j \in 1..(i - 1) : j \in taken

isAnyEffectActive(c) ==
  Len(c.resonance) > 0 \/ Len(c.prism) > 0 \/ Len(c.rift) > 0 \/ Len(c.spikes) > 0

clearAllEffects_KeepPools(c) == [c EXCEPT !.activeEffect = "idle"]

clearAllEffects(c) ==
  [c EXCEPT !.resonance = <<>>, !.prism = <<>>, !.rift = <<>>, !.spikes = <<>>,
            !.activeEffect = "idle"]

RECURSIVE emitResonanceFrom(_, _, _, _)
emitResonanceFrom(c, i, rings, id) ==
  IF i >= rings THEN c
  ELSE LET w == [id |-> id, k |-> i, life |-> One, delay |-> i * ringDelay,
                 opacity |-> One, scale |-> One]
       IN emitResonanceFrom([c EXCEPT !.resonance = Append(@, w)], i + 1, rings, id)

emitResonance(c, rings, old) == emitResonanceFrom(c, 0, rings, FreshId(IdsOf(c) \cup old))

emitPrism(c, rays, old) ==
  IF rays <= 0 THEN c
  ELSE LET ray == [id |-> FreshId(IdsOf(c) \cup old), life |-> One, phase |-> 0,
                   opacity |-> 0, n |-> rays]
       IN [c EXCEPT !.prism = Append(@, ray)]

\* Particle lives are 1.2 + random * 1.2: the model keeps two sample
\* particles, at 1.2 s and at 1.8 s.
particleLives == <<720, 1080>>

emitRift(c, count, old) ==
  LET neb == [id |-> FreshId(IdsOf(c) \cup old), opacity |-> One,
              particles |-> particleLives, n |-> count]
  IN [c EXCEPT !.rift = Append(@, neb)]

createSpikes(c, count, old) ==
  IF count <= 0 THEN c
  ELSE LET spike == [id |-> FreshId(IdsOf(c) \cup old), life |-> One, opacity |-> 0,
                     n |-> count]
       IN [c EXCEPT !.spikes = Append(@, spike)]

spikeCount_Unclamped(low, mid, high) ==
  LET intensity == 50 * low + 80 * mid + 100 * high
  IN (12 * 10000 + intensity * 48) \div 10000

\* count = floor(12 + min(1, 0.5 low + 0.8 mid + 1.0 high) * 48)
spikeCount(low, mid, high) ==
  LET intensity == Min(10000, 50 * low + 80 * mid + 100 * high)
  IN (12 * 10000 + intensity * 48) \div 10000

triggerSpikesFromAudio(c, low, mid, high, old) ==
  createSpikes(c, spikeCount(low, mid, high), old)

triggerEffect_NoClear(c, kind, old) ==
  CASE kind = "resonance" ->
         [emitResonance(c, 3, old) EXCEPT !.bloomStrength = 130,
                                          !.activeEffect = "resonance"]
    [] kind = "prism" ->
         [emitPrism(c, 120, old) EXCEPT !.bloomStrength = 135,
                                        !.activeEffect = "prism"]
    [] kind = "rift" ->
         [emitRift(c, 2000, old) EXCEPT !.bloomStrength = 160,
                                        !.activeEffect = "rift"]
    [] kind = "spikes" ->
         [createSpikes(c, 36, old) EXCEPT !.bloomStrength = 140,
                                          !.activeEffect = "spikes"]
    [] OTHER -> c

triggerEffect_NoSpikes(c, kind, old) ==
  LET cl == clearAllEffects(c)
  IN CASE kind = "resonance" ->
            [emitResonance(cl, 3, old) EXCEPT !.bloomStrength = 130,
                                              !.activeEffect = "resonance"]
       [] kind = "prism" ->
            [emitPrism(cl, 120, old) EXCEPT !.bloomStrength = 135,
                                            !.activeEffect = "prism"]
       [] kind = "rift" ->
            [emitRift(cl, 2000, old) EXCEPT !.bloomStrength = 160,
                                            !.activeEffect = "rift"]
       [] kind = "spikes" ->
            [cl EXCEPT !.bloomStrength = 140, !.activeEffect = "spikes"]
       [] OTHER -> cl

triggerEffect(c, kind, old) ==
  LET cl == clearAllEffects(c)
  IN CASE kind = "resonance" ->
            [emitResonance(cl, 3, old) EXCEPT !.bloomStrength = 130,
                                              !.activeEffect = "resonance"]
       [] kind = "prism" ->
            [emitPrism(cl, 120, old) EXCEPT !.bloomStrength = 135,
                                            !.activeEffect = "prism"]
       [] kind = "rift" ->
            [emitRift(cl, 2000, old) EXCEPT !.bloomStrength = 160,
                                            !.activeEffect = "rift"]
       [] kind = "spikes" ->
            [createSpikes(cl, 36, old) EXCEPT !.bloomStrength = 140,
                                              !.activeEffect = "spikes"]
       [] OTHER -> cl

setExclusiveEffect(c, kind, old) ==
  IF kind = "idle" THEN clearAllEffects(c)
  ELSE IF c.activeEffect = kind /\ isAnyEffectActive(c) THEN c
  ELSE triggerEffect(c, kind, old)

setThemeByEnergyInstrument_AtThreshold(c, energy, instrument) ==
  LET base == IF instrument = "bass" THEN 0
              ELSE IF instrument = "guitar" THEN 1
              ELSE IF instrument = "drums" THEN 2
              ELSE 0
      idx == IF energy >= 3500 THEN (base + 1) % themeCount ELSE base
  IN IF idx # c.themeIndex THEN [c EXCEPT !.themeIndex = idx] ELSE c

setThemeByEnergyInstrument_IndexOf(c, energy, instrument) ==
  LET base == IF instrument = "bass" THEN 0
              ELSE IF instrument = "guitar" THEN 1
              ELSE IF instrument = "drums" THEN 2
              ELSE -1
      idx == IF energy > 3500 THEN (base + 1) % themeCount ELSE base
  IN IF idx # c.themeIndex THEN [c EXCEPT !.themeIndex = idx] ELSE c

setThemeByEnergyInstrument(c, energy, instrument) ==
  LET base == IF instrument = "bass" THEN 0
              ELSE IF instrument = "guitar" THEN 1
              ELSE IF instrument = "drums" THEN 2
              ELSE 0
      idx == IF energy > 3500 THEN (base + 1) % themeCount ELSE base
  IN IF idx # c.themeIndex THEN [c EXCEPT !.themeIndex = idx] ELSE c

\* ---- the per-tick lifecycle (CrystalSphere.update) ----

\* sin(life * PI) on [0, 1], as the parabola through its zeros and its
\* maximum: 0 at life 0 and life 1, positive between, negative outside.
sinPi(life) == (4 * life * (One - life)) \div One

ringStep_AgesWhileDelayed(w, dt) ==
  LET life == w.life - (dt * 6) \div 10
  IN IF w.delay > 0 THEN [w EXCEPT !.delay = @ - dt, !.life = life]
     ELSE [w EXCEPT !.life = life, !.opacity = Max(0, sinPi(life)),
                    !.scale = One + (One - life) * 14]

\* w.scale.setScalar(0.1 + p * 1.4) with p = 1 - life; scale in units of
\* 1/6000, so 0.1 is One and 1.4 per unit of p is 14 per unit of life.
ringStep(w, dt) ==
  IF w.delay > 0 THEN [w EXCEPT !.delay = @ - dt]
  ELSE LET life == w.life - (dt * 6) \div 10
       IN [w EXCEPT !.life = life, !.opacity = Max(0, sinPi(life)),
                    !.scale = One + (One - life) * 14]

updateResonance(c, dt) ==
  IF Len(c.resonance) = 0 THEN c
  ELSE LET survives(w) == w.delay > 0 \/ ringStep(w, dt).life > 0
           kept == SelectSeq(c.resonance, survives)
           survivors == [i \in 1..Len(kept) |-> ringStep(kept[i], dt)]
       IN [c EXCEPT !.resonance = survivors,
                    !.bloomStrength = IF Len(survivors) = 0 THEN 120 ELSE @]

rayStep_FadesFromStart(r, dt) ==
  LET phase == r.phase + (dt * 35) \div 10
  IN [r EXCEPT !.phase = phase, !.life = @ - (dt * 9) \div 10,
               !.opacity = IF phase < One THEN phase
                           ELSE Max(0, r.life - (dt * 9) \div 10)]

rayStep(r, dt) ==
  LET phase == r.phase + (dt * 35) \div 10
  IN IF phase < One
     THEN [r EXCEPT !.phase = phase, !.opacity = phase]
     ELSE [r EXCEPT !.phase = phase, !.life = @ - (dt * 9) \div 10,
                    !.opacity = Max(0, r.life - (dt * 9) \div 10)]

updatePrism(c, dt) ==
  IF Len(c.prism) = 0 THEN c
  ELSE LET survives(r) == rayStep(r, dt).life > 0
           kept == SelectSeq(c.prism, survives)
           survivors == [i \in 1..Len(kept) |-> rayStep(kept[i], dt)]
       IN [c EXCEPT !.prism = survivors,
                    !.bloomStrength = IF Len(survivors) = 0 THEN 120 ELSE @]

riftFade(dt) == (dt * 4) \div 10

updateRift_KeepExpired(c, dt) ==
  IF Len(c.rift) = 0 THEN c
  ELSE LET neb == c.rift[1]
           aged == [i \in 1..Len(neb.particles) |-> neb.particles[i] - dt]
           opacity == neb.opacity - riftFade(dt)
       IN IF opacity < 0
          THEN [c EXCEPT !.rift = Tail(@), !.bloomStrength = 120]
          ELSE [c EXCEPT !.rift[1] = [neb EXCEPT !.particles = aged,
                                                 !.opacity = opacity]]

\* Only group.children[0] is animated and faded.
updateRift(c, dt) ==
  IF Len(c.rift) = 0 THEN c
  ELSE LET neb == c.rift[1]
           aged == [i \in 1..Len(neb.particles) |-> neb.particles[i] - dt]
           opacity == neb.opacity - riftFade(dt)
       IN IF opacity <= 0
          THEN [c EXCEPT !.rift = Tail(@), !.bloomStrength = 120]
          ELSE [c EXCEPT !.rift[1] = [neb EXCEPT !.particles = aged,
                                                 !.opacity = opacity]]

spikeStep_NoLifeClamp(s, dt) ==
  LET life == s.life - (dt * 8) \div 10
      ramped == Min(One, s.opacity + dt * 2)
  IN [s EXCEPT !.life = life, !.opacity = Max(0, Min(One, ramped))]

spikeStep_Ageless(s, dt) ==
  LET life == s.life
      ramped == Min(One, s.opacity + dt * 2)
  IN [s EXCEPT !.life = life, !.opacity = Max(0, Min(One, Min(ramped, life)))]

spikeStep_Reviving(s, dt) ==
  LET life == s.life + (dt * 8) \div 10
      ramped == Min(One, s.opacity + dt * 2)
  IN [s EXCEPT !.life = life, !.opacity = Max(0, Min(One, Min(ramped, life)))]

spikeStep(s, dt) ==
  LET life == s.life - (dt * 8) \div 10
      ramped == Min(One, s.opacity + dt * 2)
  IN [s EXCEPT !.life = life, !.opacity = Max(0, Min(One, Min(ramped, life)))]

updateSpikes_IdleWhenEmpty(c, dt) ==
  IF Len(c.spikes) = 0 THEN c
  ELSE LET survives(s) == spikeStep(s, dt).life > 0
           kept == SelectSeq(c.spikes, survives)
           survivors == [i \in 1..Len(kept) |-> spikeStep(kept[i], dt)]
       IN [c EXCEPT !.spikes = survivors,
                    !.activeEffect = IF Len(survivors) = 0 THEN "idle" ELSE @,
                    !.bloomStrength =
                      IF Len(survivors) = 0 /\ c.activeEffect = "spikes" THEN 120 ELSE @]

updateSpikes(c, dt) ==
  IF Len(c.spikes) = 0 THEN c
  ELSE LET survives(s) == spikeStep(s, dt).life > 0
           kept == SelectSeq(c.spikes, survives)
           survivors == [i \in 1..Len(kept) |-> spikeStep(kept[i], dt)]
       IN [c EXCEPT !.spikes = survivors,
                    !.bloomStrength =
                      IF Len(survivors) = 0 /\ c.activeEffect = "spikes" THEN 120 ELSE @]

crystalUpdate_Emitting(c, dt) ==
  emitPrism(updateSpikes(updateRift(updatePrism(updateResonance(c, dt), dt), dt), dt),
            60, {})

crystalUpdate(c, dt) ==
  updateSpikes(updateRift(updatePrism(updateResonance(c, dt), dt), dt), dt)

CrystalInit ==
  crystal = [themeIndex |-> 0, activeEffect |-> "idle", bloomStrength |-> 120,
             resonance |-> <<>>, prism |-> <<>>, rift |-> <<>>, spikes |-> <<>>]

\* ------------------------------------------------------------------ SceneView

minHoldSeconds == 1800         \* 3.0 s
StartTimes == {300}            \* performance.now() when the SceneView is built

chooseEffect_ResonanceFirst(low, mid, high, rms, beat) ==
  LET energy == 45 * low + 35 * mid + 20 * high + 30 * rms
  IN IF beat /\ high > 55 THEN "spikes"
     ELSE IF mid > 55 /\ low < 40 THEN "resonance"
     ELSE IF high > 60 /\ mid > 50 THEN "prism"
     ELSE IF low > 55 THEN "rift"
     ELSE IF energy > 5000 THEN "prism"
     ELSE IF energy > 3500 THEN "resonance"
     ELSE "null"

chooseEffect_EnergyFirst(low, mid, high, rms, beat) ==
  LET energy == 45 * low + 35 * mid + 20 * high + 30 * rms
  IN IF beat /\ high > 55 THEN "spikes"
     ELSE IF energy > 5000 THEN "prism"
     ELSE IF energy > 3500 THEN "resonance"
     ELSE IF high > 60 /\ mid > 50 THEN "prism"
     ELSE IF mid > 55 /\ low < 40 THEN "resonance"
     ELSE IF low > 55 THEN "rift"
     ELSE "null"

chooseEffect_IdleDefault(low, mid, high, rms, beat) ==
  LET energy == 45 * low + 35 * mid + 20 * high + 30 * rms
  IN IF beat /\ high > 55 THEN "spikes"
     ELSE IF high > 60 /\ mid > 50 THEN "prism"
     ELSE IF mid > 55 /\ low < 40 THEN "resonance"
     ELSE IF low > 55 THEN "rift"
     ELSE IF energy > 5000 THEN "prism"
     ELSE IF energy > 3500 THEN "resonance"
     ELSE "idle"

\* energy = 0.45 low + 0.35 mid + 0.2 high + 0.3 rms, in units of 1e-4
chooseEffect(low, mid, high, rms, beat) ==
  LET energy == 45 * low + 35 * mid + 20 * high + 30 * rms
  IN IF beat /\ high > 55 THEN "spikes"
     ELSE IF high > 60 /\ mid > 50 THEN "prism"
     ELSE IF mid > 55 /\ low < 40 THEN "resonance"
     ELSE IF low > 55 THEN "rift"
     ELSE IF energy > 5000 THEN "prism"
     ELSE IF energy > 3500 THEN "resonance"
     ELSE "null"

canSwitch_NoHold(now, lastSw) == TRUE

canSwitch(now, lastSw) == now - lastSw > minHoldSeconds

\* A call of chooseEffect on the arguments at hand.
callChooseEffect ==
  /\ ladderResult' = chooseEffect(ladderArgs.low, ladderArgs.mid, ladderArgs.high,
                            ladderArgs.rms, ladderArgs.beat)
  /\ UNCHANGED ladderArgs

\* Argument values on both sides of every threshold of the ladder.
LadderLows == {0, 39, 40, 55, 56, 100}
LadderMids == {0, 50, 51, 55, 56, 100}
LadderHighs == {0, 55, 56, 60, 61, 100}
LadderRms == {0, 20, 100}

LadderInit ==
  /\ ladderArgs = [low |-> 0, mid |-> 0, high |-> 0, rms |-> 0, beat |-> FALSE]
  /\ ladderResult = "null"

LadderInputs ==
  /\ ladderArgs \in [low : LadderLows, mid : LadderMids, high : LadderHighs,
                      rms : LadderRms, beat : BOOLEAN]
  /\ ladderResult = "null"

\* min(1, 0.5 low + 0.3 mid + 0.2 high + 0.3 rms), in units of 1e-4
themeEnergy(f) == Min(10000, 50 * f.low + 30 * f.mid + 20 * f.high + 30 * f.rms)

storeFrame_Torn(slot, f) == [slot EXCEPT !.rms = f.rms, !.low = f.low]

\* this.lastRms = rms; this.lastLow = low; this.lastMid = mid;
\* this.lastHigh = high: four writes in one run of the handler.
storeFrame(slot, f) == [rms |-> f.rms, low |-> f.low, mid |-> f.mid, high |-> f.high]

\* The crystal after lines 119-142 of updateFromAudio, and whether the
\* selector applied a switch.
selectorStep(c, f, now, lastSw, instrument) ==
  LET old == IdsOf(c)
      themed == setThemeByEnergyInstrument(c, themeEnergy(f), instrument)
      chosen == chooseEffect(f.low, f.mid, f.high, f.rms, f.beat)
      switch == chosen # "null" /\ chosen # themed.activeEffect /\ canSwitch(now, lastSw)
      switched == IF switch THEN setExclusiveEffect(themed, chosen, old) ELSE themed
      spiked == IF switched.activeEffect = "spikes" /\ (f.beat \/ f.high > 50)
                THEN triggerSpikesFromAudio(switched, f.low, f.mid, f.high, old)
                ELSE switched
      active == spiked.activeEffect
      reinforced ==
        IF active = "resonance" /\ (f.beat \/ f.mid > 55) THEN emitResonance(spiked, 2, old)
        ELSE IF active = "prism" /\ f.high > 55 THEN emitPrism(spiked, 60, old)
        ELSE IF active = "rift" /\ f.low > 55 THEN emitRift(spiked, 900, old)
        ELSE spiked
  IN [crystal |-> reinforced, switch |-> switch]

\* The emission calls a pool holds instances of are at most `cap`: the horizon
\* of the exploration, not a limit of the program.
WithinCapsOf(c, cap) ==
  /\ Cardinality(SeqIds(c.resonance)) <= cap
  /\ Len(c.prism) <= cap
  /\ Len(c.rift) <= cap
  /\ Len(c.spikes) <= cap

WithinCaps(c) == WithinCapsOf(c, MaxBatches)

updateFromAudioWithin(f, step, cap) ==
  /\ audioOn
  /\ clock' = clock + step
  /\ \E r \in {selectorStep(crystal, f, clock + step, lastEffectSwitchAt, currentInstrument)} :
       LET now == clock + step
           changed == r.crystal.activeEffect # crystal.activeEffect
       IN /\ WithinCapsOf(r.crystal, cap)
          /\ crystal' = r.crystal
          /\ lastEffectSwitchAt' = IF r.switch THEN now ELSE lastEffectSwitchAt
          /\ postfxBloom' = r.crystal.bloomStrength
          /\ effectChangedAt' = IF changed THEN now ELSE effectChangedAt
          /\ prevEffectChangedAt' = IF changed THEN effectChangedAt ELSE prevEffectChangedAt
  /\ last' = storeFrame(last, f)
  /\ UNCHANGED <<start, currentInstrument, audioOn, classifierVars>>

updateFromAudio(f, step) == updateFromAudioWithin(f, step, MaxBatches)

\* The render tick (3D branch): classify, then age the crystal's pools.
animate(step) ==
  /\ clock' = clock + step
  /\ LET t == clock' - start
     IN /\ classifierStep(t, last.rms, last.low, last.mid, last.high, last.rms > 12)
        /\ currentInstrument' = current'
  /\ crystal' = crystalUpdate(crystal, Dt)
  /\ UNCHANGED <<start, last, lastEffectSwitchAt, postfxBloom,
                 effectChangedAt, prevEffectChangedAt, audioOn>>

\* AudioEngine.stop() as the scene sees it: no frame is published after it.
stopAudio ==
  /\ audioOn
  /\ audioOn' = FALSE
  /\ UNCHANGED <<clock, classifierVars, start, last, currentInstrument,
                 lastEffectSwitchAt, postfxBloom, crystal,
                 effectChangedAt, prevEffectChangedAt>>

SceneInit ==
  /\ start \in StartTimes
  /\ clock = start
  /\ last = [rms |-> 0, low |-> 0, mid |-> 0, high |-> 0]
  /\ currentInstrument = "none"
  /\ lastEffectSwitchAt = 0
  /\ postfxBloom = 70
  /\ CrystalInit
  /\ effectChangedAt = -1
  /\ prevEffectChangedAt = -1
  /\ audioOn = TRUE

\* ---------------------------------------------- AudioEngine: start and stop

\* The energies and clock steps of the analysis ticks of this component.
TickEnergies == {0}
TickSteps == {60}

\* The state a new AudioContext may be in.
ContextStates == {"suspended", "running"}

\* `this.audioContext ||= new AudioContext()`
contextAfterCreate(st) == IF audioContext = "none" THEN st ELSE audioContext

\* The callback ids the model subscribes, and the longest this.callbacks.
CallbackIds == {"app", "other"}
MaxCallbacks == 2

Range(seq) == {seq[i] : i \in 1..Len(seq)}

\* `for (const cb of this.callbacks) cb(frame)`: a Set is iterated in
\* insertion order.
invokeAll(cbs) == [i \in 1..Len(cbs) |-> cbs[i]]

addCallback_Push(cbs, cb) == Append(cbs, cb)

\* this.callbacks.add(callback): a Set holds a value once.
addCallback(cbs, cb) == IF cb \in Range(cbs) THEN cbs ELSE Append(cbs, cb)

\* this.callbacks.delete(callback)
deleteCallback(cbs, cb) == SelectSeq(cbs, LAMBDA x : x # cb)

\* `if (this.rafId) cancelAnimationFrame(this.rafId)`: the queue after it.
\* Cancelling the id of a callback that has already run removes nothing.
cancelAnimationFrame(queue) == IF rafId /\ rafIdQueued THEN queue - 1 ELSE queue

\* tick(): one frame is computed and handed to every subscribed callback,
\* and the next tick is scheduled.
tickBody(e, st) ==
  /\ analyser /\ audioContext # "none"
  /\ detectBeat(e, st)
  /\ deliveredTo' = invokeAll(callbacks)
  /\ rafId' = TRUE
  /\ rafIdQueued' = TRUE

\* startTick(): tick() is called directly, and its requestAnimationFrame
\* adds a callback to the display's queue.
startTick(e, st) ==
  IF ~rafId THEN tickBody(e, st) /\ frameQueue' = frameQueue + 1
  ELSE UNCHANGED <<rafId, frameQueue, rafIdQueued, beatVars, deliveredTo>>

\* The files the page loads, and the start() calls that can be outstanding
\* together (onToggle awaits start() before it marks the engine playing, so
\* a second click calls start() again).
Files == {"A", "B"}
StartCalls == {1, 2}
FirstCall == {1}

\* start(), lines 64-66, reached with the context running: `src` is
\* this.sourceNode at that point.  start() on a null or an already started
\* source node throws, and startTick() is not reached.
finishStart(src, e, st) ==
  IF src = "created"
  THEN sourceNode' = "started" /\ startTick(e, st)
  ELSE sourceNode' = src /\ UNCHANGED <<rafId, frameQueue, rafIdQueued, beatVars, deliveredTo>>

\* start(), lines 60-66, of call i, with this.sourceNode = src.
startFromLine60(i, src, ctx, e, st) ==
  IF src = "null"
  THEN /\ startPc' = [startPc EXCEPT ![i] = "idle"]
       /\ sourceNode' = src
       /\ UNCHANGED <<rafId, frameQueue, rafIdQueued, beatVars, deliveredTo>>
  ELSE IF ctx # "running"
  THEN /\ startPc' = [startPc EXCEPT ![i] = "resume"]
       /\ sourceNode' = src
       /\ UNCHANGED <<rafId, frameQueue, rafIdQueued, beatVars, deliveredTo>>
  ELSE startPc' = [startPc EXCEPT ![i] = "idle"] /\ finishStart(src, e, st)

\* A call of start(), up to its first await or its return; it is call i
\* when the calls before it are still outstanding.  Line 45 reads
\* this.pendingFile before it suspends.
start_call(i, cs, e, st) ==
  /\ startPc[i] = "idle"
  /\ \A j \in 1..(i - 1) : startPc[j] # "idle"
  /\ audioContext' = contextAfterCreate(cs)
  /\ analyser' = TRUE
  /\ halted' = FALSE
  /\ IF sourceNode = "null" /\ pendingFile # "none"
     THEN /\ startPc' = [startPc EXCEPT ![i] = "arrayBuffer"]
          /\ startFile' = [startFile EXCEPT ![i] = pendingFile]
          /\ UNCHANGED <<sourceNode, rafId, frameQueue, rafIdQueued, beatVars, deliveredTo>>
     ELSE /\ startFromLine60(i, sourceNode, contextAfterCreate(cs), e, st)
          /\ UNCHANGED startFile
  /\ UNCHANGED <<pendingFile, sourceFile, orphans, testOscillator, liveStream, callbacks,
                 tonePc, streamPc, tickPc>>

\* `await this.pendingFile.arrayBuffer()` of call i settles.
start_arrayBuffer(i, ok) ==
  /\ startPc[i] = "arrayBuffer"
  /\ startPc' = [startPc EXCEPT ![i] = IF ok THEN "decodeAudioData" ELSE "idle"]
  /\ startFile' = IF ok THEN startFile ELSE [startFile EXCEPT ![i] = "none"]
  /\ UNCHANGED <<audioContext, analyser, sourceNode, sourceFile, orphans, pendingFile,
                 testOscillator, liveStream, rafId, frameQueue, rafIdQueued, callbacks,
                 tonePc, streamPc, halted, beatVars, deliveredTo, tickPc>>

\* this.sourceNode = source (line 50): a started node that loses its only
\* reference keeps playing.
orphansAfterAssign == IF sourceNode = "started" THEN Append(orphans, sourceFile) ELSE orphans

\* `await context.decodeAudioData(arrayBuffer)` of call i settles: lines
\* 47-54 and on.
start_decoded(i, ok, e, st) ==
  /\ startPc[i] = "decodeAudioData"
  /\ IF ok
     THEN /\ sourceFile' = startFile[i]
          /\ orphans' = orphansAfterAssign
          /\ pendingFile' = "none"
          /\ startFromLine60(i, "created", audioContext, e, st)
     ELSE /\ startPc' = [startPc EXCEPT ![i] = "idle"]
          /\ UNCHANGED <<pendingFile, sourceNode, sourceFile, orphans, rafId, frameQueue,
                         rafIdQueued, beatVars, deliveredTo>>
  /\ startFile' = [startFile EXCEPT ![i] = "none"]
  /\ UNCHANGED <<audioContext, analyser, testOscillator, liveStream, callbacks,
                 tonePc, streamPc, halted, tickPc>>

\* `await this.audioContext.resume()` of call i settles.
start_resumed(i, e, st) ==
  /\ startPc[i] = "resume"
  /\ audioContext' = "running"
  /\ startPc' = [startPc EXCEPT ![i] = "idle"]
  /\ finishStart(sourceNode, e, st)
  /\ UNCHANGED <<analyser, sourceFile, orphans, pendingFile, startFile, testOscillator,
                 liveStream, callbacks, tonePc, streamPc, halted, tickPc>>

\* stop(): the node this.sourceNode refers to is stopped and let go.
stop ==
  /\ sourceNode' = "null"
  /\ sourceFile' = "none"
  /\ liveStream' = FALSE
  /\ testOscillator' = FALSE
  /\ rafId' = FALSE
  /\ rafIdQueued' = FALSE
  /\ frameQueue' = cancelAnimationFrame(frameQueue)
  /\ halted' = TRUE
  /\ UNCHANGED <<audioContext, analyser, orphans, pendingFile, startFile, callbacks,
                 startPc, tonePc, streamPc, beatVars, deliveredTo, tickPc>>

\* loadFile(file): stop(), then the file is remembered.
loadFile(file) ==
  /\ sourceNode' = "null"
  /\ sourceFile' = "none"
  /\ liveStream' = FALSE
  /\ testOscillator' = FALSE
  /\ rafId' = FALSE
  /\ rafIdQueued' = FALSE
  /\ frameQueue' = cancelAnimationFrame(frameQueue)
  /\ halted' = TRUE
  /\ pendingFile' = file
  /\ UNCHANGED <<audioContext, analyser, orphans, startFile, callbacks, startPc, tonePc,
                 streamPc, beatVars, deliveredTo, tickPc>>

\* A call of startTestTone(), up to its await or its return.
startTestTone_call(cs, e, st) ==
  /\ tonePc = "idle"
  /\ audioContext' = contextAfterCreate(cs)
  /\ analyser' = TRUE
  /\ testOscillator' = TRUE
  /\ halted' = FALSE
  /\ IF contextAfterCreate(cs) # "running"
     THEN tonePc' = "resume" /\ UNCHANGED <<rafId, frameQueue, rafIdQueued, beatVars, deliveredTo>>
     ELSE tonePc' = "idle" /\ startTick(e, st)
  /\ UNCHANGED <<sourceNode, sourceFile, pendingFile, startFile, orphans, liveStream, callbacks, startPc, streamPc, tickPc>>

\* `await context.resume()` of startTestTone settles: the local oscillator
\* is started and the tick loop with it.
startTestTone_resumed(e, st) ==
  /\ tonePc = "resume"
  /\ audioContext' = "running"
  /\ tonePc' = "idle"
  /\ startTick(e, st)
  /\ UNCHANGED <<analyser, sourceNode, sourceFile, pendingFile, startFile, orphans, testOscillator, liveStream,
                 callbacks, startPc, streamPc, halted, tickPc>>

\* A call of startFromMediaStream(), up to its await or its return; the
\* stop() it makes itself is part of this start call.
startFromMediaStream_call(cs, e, st) ==
  /\ streamPc = "idle"
  /\ audioContext' = contextAfterCreate(cs)
  /\ analyser' = TRUE
  /\ sourceNode' = "null"
  /\ sourceFile' = "none"
  /\ testOscillator' = FALSE
  /\ liveStream' = TRUE
  /\ halted' = FALSE
  /\ IF contextAfterCreate(cs) # "running"
     THEN /\ streamPc' = "resume"
          /\ rafId' = FALSE
          /\ rafIdQueued' = FALSE
          /\ frameQueue' = cancelAnimationFrame(frameQueue)
          /\ UNCHANGED <<beatVars, deliveredTo>>
     ELSE /\ streamPc' = "idle"
          /\ audioContext # "none"
          /\ detectBeat(e, st)
          /\ deliveredTo' = invokeAll(callbacks)
          /\ rafId' = TRUE
          /\ rafIdQueued' = TRUE
          /\ frameQueue' = cancelAnimationFrame(frameQueue) + 1
  /\ UNCHANGED <<pendingFile, startFile, orphans, callbacks, startPc, tonePc, tickPc>>

startFromMediaStream_resumed(e, st) ==
  /\ streamPc = "resume"
  /\ audioContext' = "running"
  /\ streamPc' = "idle"
  /\ startTick(e, st)
  /\ UNCHANGED <<analyser, sourceNode, sourceFile, pendingFile, startFile, orphans, testOscillator, liveStream,
                 callbacks, startPc, tonePc, halted, tickPc>>

\* The scheduled animation-frame callback runs tick().
tick(e, st) ==
  /\ tickPc = "idle"
  /\ frameQueue > 0
  /\ tickBody(e, st)
  /\ frameQueue' = frameQueue
  /\ UNCHANGED <<audioContext, analyser, sourceNode, sourceFile, pendingFile, startFile, orphans, testOscillator,
                 liveStream, callbacks, startPc, tonePc, streamPc, halted, tickPc>>

\* The display runs a queued callback: tick(), lines 231-242, up to and
\* into its callback loop.  Queued callbacks run in the order they were
\* queued, and this.rafId names the one queued last.
tick_begin(e, st) ==
  /\ tickPc = "idle"
  /\ frameQueue > 0
  /\ analyser /\ audioContext # "none"
  /\ detectBeat(e, st)
  /\ deliveredTo' = invokeAll(callbacks)
  /\ frameQueue' = frameQueue - 1
  /\ rafIdQueued' = (rafIdQueued /\ frameQueue > 1)
  /\ tickPc' = "delivering"
  /\ UNCHANGED <<audioContext, analyser, sourceNode, sourceFile, pendingFile, startFile, orphans, testOscillator,
                 liveStream, rafId, callbacks, startPc, tonePc, streamPc, halted>>

\* tick(), line 244, after the callback loop.
tick_end ==
  /\ tickPc = "delivering"
  /\ tickPc' = "idle"
  /\ rafId' = TRUE
  /\ rafIdQueued' = TRUE
  /\ frameQueue' = frameQueue + 1
  /\ UNCHANGED <<audioContext, analyser, sourceNode, sourceFile, pendingFile, startFile, orphans, testOscillator,
                 liveStream, callbacks, startPc, tonePc, streamPc, halted, beatVars,
                 deliveredTo>>

\* A public method can be called by the page between tasks, or by a
\* subscribed callback while tick() is inside its callback loop.
callable == tickPc = "idle" \/ deliveredTo # <<>>

\* onFrame(callback)
onFrame(cb) ==
  /\ Len(callbacks) < MaxCallbacks
  /\ callbacks' = addCallback(callbacks, cb)
  /\ UNCHANGED <<audioContext, analyser, sourceNode, sourceFile, pendingFile, startFile, orphans, testOscillator,
                 liveStream, rafId, frameQueue, rafIdQueued, startPc, tonePc, streamPc, halted, beatVars,
                 deliveredTo, tickPc>>

\* The unsubscribe function onFrame(callback) returned.
offFrame(cb) ==
  /\ cb \in Range(callbacks)
  /\ callbacks' = deleteCallback(callbacks, cb)
  /\ UNCHANGED <<audioContext, analyser, sourceNode, sourceFile, pendingFile, startFile, orphans, testOscillator,
                 liveStream, rafId, frameQueue, rafIdQueued, startPc, tonePc, streamPc, halted, beatVars,
                 deliveredTo, tickPc>>

EngineInit ==
  /\ audioContext = "none"
  /\ analyser = FALSE
  /\ sourceNode = "null"
  /\ sourceFile = "none"
  /\ orphans = <<>>
  /\ pendingFile = "none"
  /\ startFile = [i \in StartCalls |-> "none"]
  /\ testOscillator = FALSE
  /\ liveStream = FALSE
  /\ rafId = FALSE
  /\ frameQueue = 0
  /\ rafIdQueued = FALSE
  /\ tickPc = "idle"
  /\ callbacks = <<>>
  /\ deliveredTo = <<>>
  /\ startPc = [i \in StartCalls |-> "idle"]
  /\ tonePc = "idle"
  /\ streamPc = "idle"
  /\ halted = FALSE

\* ------------------------------------------------------------ specifications

Init == BeatInit /\ ClassifierInit /\ SceneInit /\ EngineInit /\ ExtractorInit /\ LadderInit

SpecBeat == Init /\ [][BeatNext]_vars

\* detectBeat called on a detector that a steadily decaying signal, one
\* sample every 60 ms, has left with 0, 5 or 41 samples and no beat fired.
PrefillLengths == {0, 5, 41}
DecayingHistory(n) == [i \in 1..n |-> 50 - i]

InitHistory ==
  /\ energyHistory \in {DecayingHistory(n) : n \in PrefillLengths}
  /\ nowSec = 60 * Len(energyHistory)
  /\ lastBeatAt = 0
  /\ beatSensitivity = 6
  /\ isBeat = FALSE
  /\ calls = 0
  /\ firedAt = -1
  /\ prevFiredAt = -1
  /\ ClassifierInit /\ SceneInit /\ EngineInit /\ ExtractorInit /\ LadderInit

SpecHistory == InitHistory /\ [][BeatNext]_vars

\* The extractor functions applied to any buffers of up to MaxLen bytes.
ExtractorNext ==
  /\ extract
  /\ UNCHANGED <<beatVars, clock, classifierVars, sceneVars, engineVars, ladderVars>>

InitExtractor ==
  BeatInit /\ ClassifierInit /\ SceneInit /\ EngineInit /\ ExtractorInputs /\ LadderInit

\* The extractor functions applied to any frequency buffer of 1 to MaxBandLen
\* bytes, beside a one-sample time-domain buffer at mid-scale.
MaxBandLen == 6
BandBuffers == UNION {[1..n -> Bytes] : n \in 1..MaxBandLen}

InitBands ==
  /\ BeatInit /\ ClassifierInit /\ SceneInit /\ EngineInit /\ LadderInit
  /\ freqData \in BandBuffers
  /\ timeData = <<128>>
  /\ features = NoFeatures

SpecBands == InitBands /\ [][ExtractorNext]_vars

\* chooseEffect called on any arguments of the grid.
InitLadder ==
  BeatInit /\ ClassifierInit /\ SceneInit /\ EngineInit /\ ExtractorInit /\ LadderInputs

LadderNext ==
  /\ callChooseEffect
  /\ UNCHANGED <<beatVars, clock, classifierVars, sceneVars, engineVars, extractorVars>>

SpecLadder == InitLadder /\ [][LadderNext]_vars

SpecExtractor == InitExtractor /\ [][ExtractorNext]_vars

\* Analysis ticks on a constant signal, at any sensitivity.
SilenceNext ==
  \/ /\ \E freq \in ZeroBuffers, t \in ConstantBuffers, st \in TimeSteps :
          silentTick(freq, t, st)
     /\ UNCHANGED <<clock, classifierVars, sceneVars, engineVars, ladderVars>>
  \/ /\ \E sens \in SensInputs : setBeatSensitivity(sens)
     /\ UNCHANGED <<clock, classifierVars, sceneVars, engineVars, extractorVars, ladderVars>>

SpecSilence == Init /\ [][SilenceNext]_vars

\* InstrumentClassifier.update called with any frames at non-decreasing times.
ClassifierSteps == {0, 1500, 2999, 3000}
MaxClassifierClock == 9300

ClassifierNext ==
  /\ \E f \in Frames, st \in ClassifierSteps :
       clock + st <= MaxClassifierClock /\ InstrumentClassifier_update(f, st)
  /\ UNCHANGED <<beatVars, sceneVars, engineVars, extractorVars, ladderVars>>

SpecClassifier == Init /\ [][ClassifierNext]_vars

\* SceneView.updateFromAudio called with any frames on a non-decreasing clock.
SelectorSteps == {0, 1800, 1801}
MaxSelectorClock == 5703

SelectorNext ==
  /\ \E f \in Frames, st \in SelectorSteps :
       clock + st <= MaxSelectorClock /\ updateFromAudio(f, st)
  /\ UNCHANGED <<beatVars, engineVars, extractorVars, ladderVars>>

SpecSelector == Init /\ [][SelectorNext]_vars

\* Analysis ticks and render ticks interleaved in any order; the clock moves
\* with the analysis ticks.
PoolSteps == {0, 1801}
MaxPoolClock == 2101
PoolFrames == {Silence, RiftFrame, ResonanceFrame, PrismFrame, SpikesFrame}

\* The display's animation-frame callback: one render tick.
renderTick == animate(0) /\ UNCHANGED <<beatVars, engineVars, extractorVars, ladderVars>>

PoolsNext ==
  \/ /\ \E f \in PoolFrames, st \in PoolSteps :
          clock + st <= MaxPoolClock /\ updateFromAudio(f, st)
     /\ UNCHANGED <<beatVars, engineVars, extractorVars, ladderVars>>
  \/ renderTick

SpecPools == Init /\ [][PoolsNext]_vars

\* Analysis ticks 1.67 s or 3 s apart, interleaved with render ticks.
SceneSteps == {1000, 1801}
MaxSceneClock == 4101

SceneNext ==
  \/ /\ \E f \in PoolFrames, st \in SceneSteps :
          clock + st <= MaxSceneClock /\ updateFromAudio(f, st)
     /\ UNCHANGED <<beatVars, engineVars, extractorVars, ladderVars>>
  \/ renderTick

SpecScene == Init /\ [][SceneNext]_vars

\* Analysis ticks 1.67 s or 3 s apart, among them beats over silent bands,
\* interleaved with render ticks.
SpikeFrames == PoolFrames \cup {BeatOnlyFrame}
MaxSpikesClock == 4101

SpikesNext ==
  \/ /\ \E f \in SpikeFrames, st \in SceneSteps :
          clock + st <= MaxSpikesClock /\ updateFromAudio(f, st)
     /\ UNCHANGED <<beatVars, engineVars, extractorVars, ladderVars>>
  \/ renderTick

SpecSpikes == Init /\ [][SpikesNext]_vars

\* CrystalSphere.setThemeByEnergyInstrument called on its own, with any
\* label and an energy at, below or above the 0.35 threshold.
Labels == {"none", "drums", "bass", "guitar"}
ThemeEnergies == {0, 3500, 3501, 10000}

callSetTheme(energy, instrument) ==
  /\ crystal' = setThemeByEnergyInstrument(crystal, energy, instrument)
  /\ UNCHANGED <<clock, classifierVars, start, last, currentInstrument,
                 lastEffectSwitchAt, postfxBloom, effectChangedAt,
                 prevEffectChangedAt, audioOn>>

\* Theme calls, analysis ticks and render ticks in any order.
ThemeFrames == {Silence, FallbackFrame, SpikesFrame}
ThemeSteps == {1801}
MaxThemeClock == 3902

ThemeNext ==
  \/ /\ \E e \in ThemeEnergies, l \in Labels : callSetTheme(e, l)
     /\ UNCHANGED <<beatVars, engineVars, extractorVars, ladderVars>>
  \/ /\ \E f \in ThemeFrames, st \in ThemeSteps :
          clock + st <= MaxThemeClock /\ updateFromAudio(f, st)
     /\ UNCHANGED <<beatVars, engineVars, extractorVars, ladderVars>>
  \/ renderTick

SpecTheme == Init /\ [][ThemeNext]_vars

\* Analysis ticks 5 s apart (the classifier's hold), with and without a
\* beat, interleaved with render ticks.
LabelFrames == {Silence, SpikesFrame, HissFrame, RiftFrame}
LabelSteps == {3000}
MaxLabelClock == 6300

LabelNext ==
  \/ /\ \E f \in LabelFrames, st \in LabelSteps :
          clock + st <= MaxLabelClock /\ updateFromAudio(f, st)
     /\ UNCHANGED <<beatVars, engineVars, extractorVars, ladderVars>>
  \/ renderTick

SpecLabel == Init /\ [][LabelNext]_vars

\* Analysis ticks about one second apart, interleaved with render ticks,
\* explored up to MaxGrowth emission calls per pool.
GrowthFrames == {Silence, RiftFrame}
GrowthSteps == {610}
MaxGrowth == 4
MaxGrowthClock == 3350

GrowthNext ==
  \/ /\ \E f \in GrowthFrames, st \in GrowthSteps :
          clock + st <= MaxGrowthClock /\ updateFromAudioWithin(f, st, MaxGrowth)
     /\ UNCHANGED <<beatVars, engineVars, extractorVars, ladderVars>>
  \/ renderTick

SpecGrowth == Init /\ [][GrowthNext]_vars

\* Analysis ticks on an advancing clock, interleaved with render ticks, and
\* the audio source stopping at any moment; the display keeps calling the
\* render tick.
DrainSteps == {1801}
MaxDrainClock == 3902

DrainNext ==
  \/ /\ \E f \in PoolFrames, st \in DrainSteps :
          clock + st <= MaxDrainClock /\ updateFromAudio(f, st)
     /\ UNCHANGED <<beatVars, engineVars, extractorVars, ladderVars>>
  \/ renderTick
  \/ /\ stopAudio
     /\ UNCHANGED <<beatVars, engineVars, extractorVars, ladderVars>>

SpecDrain == Init /\ [][DrainNext]_vars /\ WF_vars(renderTick)

\* The AudioEngine's public calls, the settling of its awaits and its
\* animation-frame callback, in any order.
EngineNext ==
  \/ /\ \E i \in FirstCall, cs \in ContextStates, e \in TickEnergies, st \in TickSteps :
          start_call(i, cs, e, st)
     /\ UNCHANGED <<clock, classifierVars, sceneVars, extractorVars, ladderVars>>
  \/ /\ \E i \in FirstCall, ok \in BOOLEAN : start_arrayBuffer(i, ok)
     /\ UNCHANGED <<clock, classifierVars, sceneVars, extractorVars, ladderVars>>
  \/ /\ \E i \in FirstCall, ok \in BOOLEAN, e \in TickEnergies, st \in TickSteps :
          start_decoded(i, ok, e, st)
     /\ UNCHANGED <<clock, classifierVars, sceneVars, extractorVars, ladderVars>>
  \/ /\ \E i \in FirstCall, e \in TickEnergies, st \in TickSteps : start_resumed(i, e, st)
     /\ UNCHANGED <<clock, classifierVars, sceneVars, extractorVars, ladderVars>>
  \/ /\ stop
     /\ UNCHANGED <<clock, classifierVars, sceneVars, extractorVars, ladderVars>>
  \/ /\ \E file \in Files : loadFile(file)
     /\ UNCHANGED <<clock, classifierVars, sceneVars, extractorVars, ladderVars>>
  \/ /\ \E cs \in ContextStates, e \in TickEnergies, st \in TickSteps :
          startTestTone_call(cs, e, st)
     /\ UNCHANGED <<clock, classifierVars, sceneVars, extractorVars, ladderVars>>
  \/ /\ \E e \in TickEnergies, st \in TickSteps : startTestTone_resumed(e, st)
     /\ UNCHANGED <<clock, classifierVars, sceneVars, extractorVars, ladderVars>>
  \/ /\ \E cs \in ContextStates, e \in TickEnergies, st \in TickSteps :
          startFromMediaStream_call(cs, e, st)
     /\ UNCHANGED <<clock, classifierVars, sceneVars, extractorVars, ladderVars>>
  \/ /\ \E e \in TickEnergies, st \in TickSteps : startFromMediaStream_resumed(e, st)
     /\ UNCHANGED <<clock, classifierVars, sceneVars, extractorVars, ladderVars>>
  \/ /\ \E e \in TickEnergies, st \in TickSteps : tick(e, st)
     /\ UNCHANGED <<clock, classifierVars, sceneVars, extractorVars, ladderVars>>
  \/ /\ \E cb \in CallbackIds : onFrame(cb)
     /\ UNCHANGED <<clock, classifierVars, sceneVars, extractorVars, ladderVars>>
  \/ /\ \E cb \in CallbackIds : offFrame(cb)
     /\ UNCHANGED <<clock, classifierVars, sceneVars, extractorVars, ladderVars>>

SpecEngine == Init /\ [][EngineNext]_vars

\* The AudioEngine's public calls made by the page or from inside a
\* subscribed callback, the settling of its awaits, and the display running
\* the queued callbacks; a task runs to completion before the next starts.
MaxQueued == 3

ReentryNext ==
  \/ /\ callable
     /\ \E i \in FirstCall, cs \in ContextStates, e \in TickEnergies, st \in TickSteps :
          start_call(i, cs, e, st)
     /\ frameQueue' <= MaxQueued
     /\ UNCHANGED <<clock, classifierVars, sceneVars, extractorVars, ladderVars>>
  \/ /\ tickPc = "idle"
     /\ \E i \in FirstCall, ok \in BOOLEAN : start_arrayBuffer(i, ok)
     /\ UNCHANGED <<clock, classifierVars, sceneVars, extractorVars, ladderVars>>
  \/ /\ tickPc = "idle"
     /\ \E i \in FirstCall, ok \in BOOLEAN, e \in TickEnergies, st \in TickSteps :
          start_decoded(i, ok, e, st)
     /\ frameQueue' <= MaxQueued
     /\ UNCHANGED <<clock, classifierVars, sceneVars, extractorVars, ladderVars>>
  \/ /\ tickPc = "idle"
     /\ \E i \in FirstCall, e \in TickEnergies, st \in TickSteps : start_resumed(i, e, st)
     /\ frameQueue' <= MaxQueued
     /\ UNCHANGED <<clock, classifierVars, sceneVars, extractorVars, ladderVars>>
  \/ /\ callable
     /\ stop
     /\ UNCHANGED <<clock, classifierVars, sceneVars, extractorVars, ladderVars>>
  \/ /\ callable
     /\ \E file \in Files : loadFile(file)
     /\ UNCHANGED <<clock, classifierVars, sceneVars, extractorVars, ladderVars>>
  \/ /\ callable
     /\ \E cs \in ContextStates, e \in TickEnergies, st \in TickSteps :
          startTestTone_call(cs, e, st)
     /\ frameQueue' <= MaxQueued
     /\ UNCHANGED <<clock, classifierVars, sceneVars, extractorVars, ladderVars>>
  \/ /\ tickPc = "idle"
     /\ \E e \in TickEnergies, st \in TickSteps : startTestTone_resumed(e, st)
     /\ frameQueue' <= MaxQueued
     /\ UNCHANGED <<clock, classifierVars, sceneVars, extractorVars, ladderVars>>
  \/ /\ callable
     /\ \E cs \in ContextStates, e \in TickEnergies, st \in TickSteps :
          startFromMediaStream_call(cs, e, st)
     /\ frameQueue' <= MaxQueued
     /\ UNCHANGED <<clock, classifierVars, sceneVars, extractorVars, ladderVars>>
  \/ /\ tickPc = "idle"
     /\ \E e \in TickEnergies, st \in TickSteps : startFromMediaStream_resumed(e, st)
     /\ frameQueue' <= MaxQueued
     /\ UNCHANGED <<clock, classifierVars, sceneVars, extractorVars, ladderVars>>
  \/ /\ \E e \in TickEnergies, st \in TickSteps : tick_begin(e, st)
     /\ UNCHANGED <<clock, classifierVars, sceneVars, extractorVars, ladderVars>>
  \/ /\ tick_end
     /\ frameQueue' <= MaxQueued
     /\ UNCHANGED <<clock, classifierVars, sceneVars, extractorVars, ladderVars>>
  \/ /\ callable
     /\ \E cb \in CallbackIds : onFrame(cb)
     /\ UNCHANGED <<clock, classifierVars, sceneVars, extractorVars, ladderVars>>
  \/ /\ callable
     /\ \E cb \in CallbackIds : offFrame(cb)
     /\ UNCHANGED <<clock, classifierVars, sceneVars, extractorVars, ladderVars>>

SpecReentry == Init /\ [][ReentryNext]_vars

\* loadFile, stop and up to two overlapping start() calls with the settling
\* of their awaits, and the tick loop.
MaxOrphans == 2

FilesNext ==
  \/ /\ \E i \in StartCalls, cs \in ContextStates, e \in TickEnergies, st \in TickSteps :
          start_call(i, cs, e, st)
     /\ UNCHANGED <<clock, classifierVars, sceneVars, extractorVars, ladderVars>>
  \/ /\ \E i \in StartCalls, ok \in BOOLEAN : start_arrayBuffer(i, ok)
     /\ UNCHANGED <<clock, classifierVars, sceneVars, extractorVars, ladderVars>>
  \/ /\ \E i \in StartCalls, ok \in BOOLEAN, e \in TickEnergies, st \in TickSteps :
          start_decoded(i, ok, e, st)
     /\ Len(orphans') <= MaxOrphans
     /\ UNCHANGED <<clock, classifierVars, sceneVars, extractorVars, ladderVars>>
  \/ /\ \E i \in StartCalls, e \in TickEnergies, st \in TickSteps : start_resumed(i, e, st)
     /\ UNCHANGED <<clock, classifierVars, sceneVars, extractorVars, ladderVars>>
  \/ /\ stop
     /\ UNCHANGED <<clock, classifierVars, sceneVars, extractorVars, ladderVars>>
  \/ /\ \E file \in Files : loadFile(file)
     /\ UNCHANGED <<clock, classifierVars, sceneVars, extractorVars, ladderVars>>
  \/ /\ \E e \in TickEnergies, st \in TickSteps : tick(e, st)
     /\ UNCHANGED <<clock, classifierVars, sceneVars, extractorVars, ladderVars>>

SpecFiles == Init /\ [][FilesNext]_vars

\* ------------------------------------------------------- pools, by instance

\* The identities of the instances a group holds.
RingKeys(pool) == {<<pool[i].id, pool[i].k>> : i \in 1..Len(pool)}

PoolOf(c, kind) ==
  CASE kind = "resonance" -> c.resonance
    [] kind = "prism" -> c.prism
    [] kind = "rift" -> c.rift
    [] kind = "spikes" -> c.spikes

KeysOf(c, kind) ==
  IF kind = "resonance" THEN RingKeys(c.resonance)
  ELSE {<<PoolOf(c, kind)[i].id, 0>> : i \in 1..Len(PoolOf(c, kind))}

KeyAt(pool, kind, i) == IF kind = "resonance" THEN <<pool[i].id, pool[i].k>> ELSE <<pool[i].id, 0>>

IsPrefix(p, q) == Len(p) <= Len(q) /\ SubSeq(q, 1, Len(p)) = p

PoolsEmpty(c) == ~isAnyEffectActive(c)

\* ---------------------------------------------------------------- the claims

\* C1: two detectBeat calls that both return isBeat = true are never 120 ms
\* or less apart: whenever two calls have returned true, the later of them
\* came more than 120 ms after the earlier one.
C1_BeatDebounce == prevFiredAt # -1 => firedAt - prevFiredAt > minInterval

\* Two beats have fired, the second as early as the debounce allows (121 ms).
C1_Witness == prevFiredAt # -1 /\ firedAt - prevFiredAt = minInterval + 1

\* C2: over any sequence of updateFromAudio calls, two changes of the active
\* effect kind are more than 3 seconds apart, and a call changes the active
\* kind only to the kind chooseEffect returned for its frame, when that kind
\* differs from the active one and more than the hold interval has passed
\* since the last applied switch.
C2_EffectHold ==
  /\ [](prevEffectChangedAt # -1 => effectChangedAt - prevEffectChangedAt > minHoldSeconds)
  /\ [][\A f \in Frames, st \in SelectorSteps :
         (updateFromAudio(f, st) /\ crystal'.activeEffect # crystal.activeEffect)
           => /\ chooseEffect(f.low, f.mid, f.high, f.rms, f.beat) = crystal'.activeEffect
              /\ canSwitch(clock', lastEffectSwitchAt)
              /\ lastEffectSwitchAt' = clock']_vars

\* The active kind has changed twice, the second time as soon as the hold
\* allows.
C2_Witness == prevEffectChangedAt # -1 /\ effectChangedAt - prevEffectChangedAt = minHoldSeconds + 1

\* C3: over any sequence of InstrumentClassifier.update calls at
\* non-decreasing times, two changes of the returned label are at least 5
\* seconds apart, a call changes the label only when 5 seconds have passed
\* since the last accepted switch, and every call less than 5 seconds after
\* an accepted switch returns the accepted label.
C3_InstrumentHold ==
  /\ [](prevLabelChangedAt # -1 => labelChangedAt - prevLabelChangedAt >= holdSeconds)
  /\ [][(current' # current => (clock' - start) - lastSwitchAt >= holdSeconds)
        /\ ((clock' - start) - lastSwitchAt < holdSeconds => current' = current)]_vars

\* The label has changed twice, the second time exactly 5 seconds after the
\* first.
C3_Witness == prevLabelChangedAt # -1 /\ labelChangedAt - prevLabelChangedAt = holdSeconds

\* C4: a step of updateFromAudio that changes the active kind to K leaves
\* the groups of the three other kinds empty.
C4_ExclusiveOnSwitch ==
  [][crystal'.activeEffect # crystal.activeEffect
       => \A kind \in Kinds \ {crystal'.activeEffect} : Len(PoolOf(crystal', kind)) = 0]_vars

\* A switch has just replaced an earlier effect kind: the new kind's group
\* holds instances, and the earlier kind had been switched to before it.
C4_Witness ==
  /\ prevEffectChangedAt # -1
  /\ effectChangedAt = clock
  /\ crystal.activeEffect = "rift"
  /\ Len(crystal.rift) > 0

\* C5 as stated: once stop() has returned, and until start(), startTestTone()
\* or startFromMediaStream() is called again, no step hands a frame to a
\* subscribed callback, whatever awaits of an earlier start() settle
\* meanwhile.  (Every frame handed out is one detectBeat call.)
C5_StopHaltsPublication ==
  [][(halted /\ halted' /\ callbacks # <<>>) => calls' = calls]_vars

\* C6: once the audio source has stopped, so that updateFromAudio is not
\* called again, and the render tick keeps running, the four groups
\* eventually are all empty and stay empty.
C6_DrainAfterStop == [](~audioOn => <>[]PoolsEmpty(crystal))

\* The source has stopped, and the Rift batches of the last switch have all
\* been destroyed.
C6_Witness ==
  /\ ~audioOn
  /\ crystal.activeEffect = "rift"
  /\ PoolsEmpty(crystal)

C8_MonotoneLife ==
  [][/\ \A kind \in {"resonance", "prism", "spikes"} :
          \A i \in 1..Len(PoolOf(crystal, kind)), j \in 1..Len(PoolOf(crystal', kind)) :
            KeyAt(PoolOf(crystal, kind), kind, i) = KeyAt(PoolOf(crystal', kind), kind, j)
              => PoolOf(crystal', kind)[j].life <= PoolOf(crystal, kind)[i].life
     /\ \A i \in 1..Len(crystal.rift), j \in 1..Len(crystal'.rift) :
          crystal.rift[i].id = crystal'.rift[j].id
            => \A p \in 1..Len(crystal.rift[i].particles) :
                 crystal'.rift[j].particles[p] <= crystal.rift[i].particles[p]]_vars

\* A ray that has finished fading in and is losing life.
C8_Witness ==
  /\ Len(crystal.prism) > 0
  /\ crystal.prism[1].phase >= One
  /\ crystal.prism[1].life < One - Dt

\* C9: in every state between handler calls, each ring, ray and spike in
\* its group has life > 0 and each Rift batch in its group has opacity > 0.
C9_NoExpiredSurvivor ==
  /\ \A kind \in {"resonance", "prism", "spikes"} :
       \A i \in 1..Len(PoolOf(crystal, kind)) : PoolOf(crystal, kind)[i].life > 0
  /\ \A i \in 1..Len(crystal.rift) : crystal.rift[i].opacity > 0

\* The rings of the first emission have expired and are gone from the group
\* while rings of a later emission are still in it.
C9_Witness ==
  /\ Len(crystal.resonance) > 0
  /\ \A i \in 1..Len(crystal.resonance) : crystal.resonance[i].id = 2

\* C10 as stated: on every render tick each Rift batch in the group, whatever
\* its position, loses 0.4 * dt of opacity, and is removed in the tick in
\* which its opacity reaches 0 (150 ticks after its emission at dt = 1/60).
C10_EveryRiftBatchFades ==
  [][animate(0)
       => \A i \in 1..Len(crystal.rift) :
            IF crystal.rift[i].opacity - riftFade(Dt) <= 0
            THEN <<crystal.rift[i].id, 0>> \notin KeysOf(crystal', "rift")
            ELSE \E j \in 1..Len(crystal'.rift) :
                   /\ crystal'.rift[j].id = crystal.rift[i].id
                   /\ crystal'.rift[j].opacity = crystal.rift[i].opacity - riftFade(Dt)]_vars

\* C11 as stated: a ring whose spawn delay has not yet elapsed has opacity 0
\* in every state from its emission on.
C11_DelayedRingInvisible ==
  \A i \in 1..Len(crystal.resonance) :
    crystal.resonance[i].delay > 0 => crystal.resonance[i].opacity = 0

\* C12 as stated: for an empty frequency buffer the extractor returns
\* rms = low = mid = high = 0, and for an empty time-domain buffer it returns
\* energy 0; no output is a non-number.
C12_EmptyBuffersYieldZero ==
  [][extract => /\ freqData = <<>> => /\ features'.rms = Num(0)
                                      /\ features'.low = Num(0)
                                      /\ features'.mid = Num(0)
                                      /\ features'.high = Num(0)
                /\ timeData = <<>> => features'.energy = Num(0)]_vars

\* C13: on a constant signal (every tick an all-zero frequency buffer of
\* some length N >= 1 and the same time-domain buffer, all 0 or all 128) the
\* extractor returns rms = low = mid = high = 0 and detectBeat never returns
\* true, whatever the sensitivity is set to.
C13_ZeroInput ==
  /\ ~isBeat
  /\ freqData # <<>> => /\ features.rms = Num(0)
                        /\ features.low = Num(0)
                        /\ features.mid = Num(0)
                        /\ features.high = Num(0)

\* The detector is past its warm-up and its debounce on an all-zero
\* time-domain buffer (instant energy 1.0) at the highest sensitivity.
C13_Witness ==
  /\ Len(energyHistory) > minHistory
  /\ timeData # <<>> /\ timeData[1] = 0
  /\ features.energy = Num(10000)
  /\ beatSensitivity = 10
  /\ nowSec - lastBeatAt > minInterval

\* The values SceneView keeps of a silent frame.
SilentLast == [rms |-> 0, low |-> 0, mid |-> 0, high |-> 0]

\* C14: a step that publishes a silent frame (rms = low = mid = high = 0, no
\* beat), and a render tick taken while the last published frame is silent,
\* leave the active effect kind as it was, and leave the instrument label
\* None if it was None.
C14_SilenceKeepsState ==
  [][((\E st \in DrainSteps : updateFromAudio(Silence, st)) \/ (animate(0) /\ last = SilentLast))
       => /\ crystal'.activeEffect = crystal.activeEffect
          /\ current = "none" => current' = "none"
          /\ (current = "none" /\ currentInstrument = "none") => currentInstrument' = "none"]_vars

\* Silence is being published while Rift is active, with the effect hold and
\* the classifier hold both elapsed, and the label is None.
C14_Witness ==
  /\ last = SilentLast
  /\ crystal.activeEffect = "rift"
  /\ clock - lastEffectSwitchAt > minHoldSeconds
  /\ (clock - start) - lastSwitchAt >= holdSeconds
  /\ current = "none"

\* C15: a step that publishes the frame low = 0.6, mid = 0.2, high = 0.1,
\* beat = false makes Rift the active kind if the 3-second hold since the last
\* switch has elapsed, and leaves Rift active if it was; a render tick leaves
\* the active kind as it is.  So under this input Rift is active from the first
\* tick after the hold on.
C15_RiftConvergence ==
  [][/\ \A st \in SceneSteps :
          updateFromAudio(RiftFrame, st)
            => ((canSwitch(clock', lastEffectSwitchAt) \/ crystal.activeEffect = "rift")
                  => crystal'.activeEffect = "rift")
     /\ animate(0) => crystal'.activeEffect = crystal.activeEffect]_vars

\* Another kind was active and the Rift frame came once before the hold had
\* elapsed, without effect; the tick after the hold has switched to Rift.
C15_Witness ==
  /\ crystal.activeEffect = "rift"
  /\ prevEffectChangedAt # -1
  /\ effectChangedAt = clock
  /\ effectChangedAt - prevEffectChangedAt = 2000
  /\ last = [rms |-> RiftFrame.rms, low |-> RiftFrame.low, mid |-> RiftFrame.mid,
             high |-> RiftFrame.high]

\* The combined energy of the fallback rungs, in units of 1e-4.
LadderEnergy == 45 * ladderArgs.low + 35 * ladderArgs.mid + 20 * ladderArgs.high
                  + 30 * ladderArgs.rms

\* The conditions of the four band rungs.
Rung1 == ladderArgs.beat /\ ladderArgs.high > 55
Rung2 == ladderArgs.high > 60 /\ ladderArgs.mid > 50
Rung3 == ladderArgs.mid > 55 /\ ladderArgs.low < 40
Rung4 == ladderArgs.low > 55

\* C16: chooseEffect returns the kind of the first rung that matches, top
\* down: Spikes, Prism, Resonance, Rift by the band conditions, then Prism for
\* energy > 0.5, Resonance for energy > 0.35, and null otherwise; never Idle.
C16_PriorityLadder ==
  [][callChooseEffect =>
       /\ Rung1 => ladderResult' = "spikes"
       /\ (~Rung1 /\ Rung2) => ladderResult' = "prism"
       /\ (~Rung1 /\ ~Rung2 /\ Rung3) => ladderResult' = "resonance"
       /\ (~Rung1 /\ ~Rung2 /\ ~Rung3 /\ Rung4) => ladderResult' = "rift"
       /\ (~Rung1 /\ ~Rung2 /\ ~Rung3 /\ ~Rung4)
            => ladderResult' = IF LadderEnergy > 5000 THEN "prism"
                         ELSE IF LadderEnergy > 3500 THEN "resonance"
                         ELSE "null"
       /\ ladderResult' # "idle"]_vars

\* No band rung matches and the energy is exactly 0.5: the call has returned
\* Resonance, not Prism.
C16_Witness ==
  /\ ~Rung1 /\ ~Rung2 /\ ~Rung3 /\ ~Rung4
  /\ LadderEnergy = 5000
  /\ ladderResult = "resonance"

\* The group of `kind` begins with the batch triggerEffect emits for it:
\* three staggered rings, 120 rays or a 2000-particle nebula, all new.
BeginsWithActivationBatch(c, kind) ==
  CASE kind = "resonance" ->
         /\ Len(c.resonance) >= 3
         /\ \A i \in 1..3 : /\ c.resonance[i].id = c.resonance[1].id
                            /\ c.resonance[i].k = i - 1
                            /\ c.resonance[i].life = One
                            /\ c.resonance[i].delay = (i - 1) * ringDelay
    [] kind = "prism" ->
         Len(c.prism) >= 1 /\ c.prism[1].n = 120 /\ c.prism[1].life = One
    [] kind = "rift" ->
         Len(c.rift) >= 1 /\ c.rift[1].n = 2000 /\ c.rift[1].opacity = One
    [] OTHER -> TRUE

\* Every instance held before the step is gone after it.
AllReleased(before, after) ==
  /\ IdsOf(after) \cap IdsOf(before) = {}
  /\ \A kind \in Kinds \ {after.activeEffect} : Len(PoolOf(after, kind)) = 0

\* C17 as stated: an analysis tick that switches the active kind to
\* Resonance, Prism or Rift releases every instance held before and leaves
\* the new kind's group beginning with its activation batch; a tick that
\* switches to Spikes releases every instance too, and its switch adds no
\* spike, so that the spikes group then holds the re-trigger's batch alone.
C17_ActivationBatch ==
  [][\A f \in PoolFrames, st \in SceneSteps :
       (updateFromAudio(f, st) /\ crystal'.activeEffect # crystal.activeEffect)
         => /\ AllReleased(crystal, crystal')
            /\ BeginsWithActivationBatch(crystal', crystal'.activeEffect)
            /\ crystal'.activeEffect = "spikes"
                 => /\ Len(crystal'.spikes) = 1
                    /\ crystal'.spikes[1].n = spikeCount(f.low, f.mid, f.high)]_vars

\* C17 amended: the same for Resonance, Prism and Rift; a tick that switches
\* to Spikes releases every instance held before and its switch adds one
\* batch of 36 spikes, so that the spikes group then holds that batch
\* followed by the batch of the tick's re-trigger.
C17_ActivationBatchWithSpikes ==
  [][\A f \in PoolFrames, st \in SceneSteps :
       (updateFromAudio(f, st) /\ crystal'.activeEffect # crystal.activeEffect)
         => /\ AllReleased(crystal, crystal')
            /\ BeginsWithActivationBatch(crystal', crystal'.activeEffect)
            /\ crystal'.activeEffect = "spikes"
                 => /\ Len(crystal'.spikes) = 2
                    /\ crystal'.spikes[1].n = 36
                    /\ crystal'.spikes[1].life = One
                    /\ crystal'.spikes[2].n = spikeCount(f.low, f.mid, f.high)
                    /\ crystal'.spikes[2].life = One]_vars

\* A tick has just switched from an earlier kind to Spikes: the group holds
\* the activation batch and the re-trigger's batch, both unaged.
C17_Witness ==
  /\ prevEffectChangedAt # -1
  /\ effectChangedAt = clock
  /\ crystal.activeEffect = "spikes"
  /\ Len(crystal.spikes) = 2
  /\ crystal.spikes[1].n = 36
  /\ crystal.spikes[2].life = One

\* The number of spikes in the batches of `after` that `before` did not hold.
RECURSIVE SumNew(_, _)
SumNew(pool, oldIds) ==
  IF pool = <<>> THEN 0
  ELSE (IF Head(pool).id \in oldIds THEN 0 ELSE Head(pool).n) + SumNew(Tail(pool), oldIds)

NewSpikes(before, after) == SumNew(after.spikes, IdsOf(before))

\* floor(12 + 48 * min(1, 0.5 low + 0.8 mid + 1.0 high)), bands in hundredths
ClaimedSpikeCount(f) ==
  LET raw == 50 * f.low + 80 * f.mid + 100 * f.high
      intensity == IF raw > 10000 THEN 10000 ELSE raw
  IN (120000 + 48 * intensity) \div 10000

\* The re-trigger fires on a tick: the kind active after the tick is Spikes
\* and the frame has a beat or high above 0.5.
ReTriggerFires(f, after) == after.activeEffect = "spikes" /\ (f.beat \/ f.high > 50)

\* C18 as stated: an analysis tick adds exactly
\* floor(12 + 48 * min(1, 0.5 low + 0.8 mid + high)) new spikes, between 12
\* and 60, when the re-trigger fires on it and none otherwise; the kind
\* active after the tick is the one the tick's switch decision left.
C18_SpikeReTrigger ==
  [][\A f \in SpikeFrames, st \in SceneSteps :
       updateFromAudio(f, st)
         => /\ NewSpikes(crystal, crystal')
                 = IF ReTriggerFires(f, crystal') THEN ClaimedSpikeCount(f) ELSE 0
            /\ ClaimedSpikeCount(f) \in 12..60
            /\ crystal'.activeEffect
                 = IF lastEffectSwitchAt' # lastEffectSwitchAt
                   THEN chooseEffect(f.low, f.mid, f.high, f.rms, f.beat)
                   ELSE crystal.activeEffect]_vars

\* C18 amended: the same, counting besides the re-trigger's spikes the 36
\* spikes that the switch adds on a tick that switches the kind to Spikes.
C18_SpikeReTriggerBesideSwitch ==
  [][\A f \in SpikeFrames, st \in SceneSteps :
       updateFromAudio(f, st)
         => /\ NewSpikes(crystal, crystal')
                 = (IF ReTriggerFires(f, crystal') THEN ClaimedSpikeCount(f) ELSE 0)
                   + (IF crystal'.activeEffect = "spikes" /\ crystal.activeEffect # "spikes"
                      THEN 36 ELSE 0)
            /\ ClaimedSpikeCount(f) \in 12..60
            /\ crystal'.activeEffect
                 = IF lastEffectSwitchAt' # lastEffectSwitchAt
                   THEN chooseEffect(f.low, f.mid, f.high, f.rms, f.beat)
                   ELSE crystal.activeEffect]_vars

\* Spikes has been active since an earlier tick and the last tick, with
\* bands whose weighted sum exceeds 1, re-triggered the clamped 60 spikes.
C18_Witness ==
  /\ crystal.activeEffect = "spikes"
  /\ effectChangedAt < clock
  /\ last = [rms |-> 50, low |-> 20, mid |-> 60, high |-> 70]
  /\ Len(crystal.spikes) >= 1
  /\ crystal.spikes[Len(crystal.spikes)].n = 60
  /\ crystal.spikes[Len(crystal.spikes)].life = One

\* The index the claim gives for a label, an energy (unit 1e-4) and the index
\* `noneBase` taken as the base of the label None.
ThemeFor(energy, instrument, noneBase) ==
  LET base == CASE instrument = "bass" -> 0
                [] instrument = "guitar" -> 1
                [] instrument = "drums" -> 2
                [] OTHER -> noneBase
  IN (base + (IF energy > 3500 THEN 1 ELSE 0)) % themeCount

\* C19 as stated: a call of setThemeByEnergyInstrument(energy, label), alone
\* or within an analysis tick, leaves the theme index at
\* (base + (1 if energy > 0.35 else 0)) mod themeCount, where base is 0 for
\* Bass, 1 for Guitar, 2 for Drums and the index before the call for None.
C19_ThemeMapping ==
  [][/\ \A e \in ThemeEnergies, l \in Labels :
          callSetTheme(e, l) => crystal'.themeIndex = ThemeFor(e, l, crystal.themeIndex)
     /\ \A f \in ThemeFrames, st \in ThemeSteps :
          updateFromAudio(f, st)
            => crystal'.themeIndex
                 = ThemeFor(themeEnergy(f), currentInstrument, crystal.themeIndex)]_vars

\* C19 amended: the same with base 0 for None as for Bass, whatever the
\* index before the call.
C19_ThemeMappingNoneIsZero ==
  [][/\ \A e \in ThemeEnergies, l \in Labels :
          callSetTheme(e, l) => crystal'.themeIndex = ThemeFor(e, l, 0)
     /\ \A f \in ThemeFrames, st \in ThemeSteps :
          updateFromAudio(f, st)
            => crystal'.themeIndex = ThemeFor(themeEnergy(f), currentInstrument, 0)]_vars

\* An analysis tick with label None and energy 0.39 has just run and left
\* index 1, after a tick with a beat had switched the kind to Spikes.
C19_Witness ==
  /\ currentInstrument = "none"
  /\ last = [rms |-> 30, low |-> 30, mid |-> 30, high |-> 30]
  /\ effectChangedAt = clock
  /\ prevEffectChangedAt # -1
  /\ crystal.themeIndex = 1

\* C20: in every state the theme index is an index of the themes array.
C20_ValidThemeIndex == crystal.themeIndex \in 0..(themeCount - 1)

\* The last theme is selected (Drums with energy above 0.35) and a group
\* holds instances emitted under it.
C20_Witness ==
  /\ crystal.themeIndex = themeCount - 1
  /\ isAnyEffectActive(crystal)

\* The four values of a published frame that the scene keeps.
BandsOf(f) == [rms |-> f.rms, low |-> f.low, mid |-> f.mid, high |-> f.high]

\* C21: the slot the render tick reads always holds the four values of one
\* frame (the initial zeros or a published frame): an analysis tick leaves
\* in it the values of the frame it publishes, a render tick reads it
\* (its label comes from classifying the slot's values), leaves it as it
\* is, and can always run.
C21_SingleSlotHandoff ==
  /\ [](last \in {BandsOf(f) : f \in PoolFrames})
  /\ [](ENABLED renderTick)
  /\ [][/\ \A f \in PoolFrames, st \in SceneSteps :
            updateFromAudio(f, st) => last' = BandsOf(f)
        /\ animate(0)
            => /\ last' = last
               /\ current' \in {current,
                                 classifyInstant(last.rms, last.low, last.mid,
                                                 last.high, last.rms > 12)}]_vars

\* Render ticks have run since the last frame (a Rift frame, whose nebula
\* has faded over at least two render ticks) was published.
C21_Witness ==
  /\ last = BandsOf(RiftFrame)
  /\ Len(crystal.rift) >= 1
  /\ crystal.rift[1].opacity <= One - 2 * riftFade(Dt)

\* C22 as stated: after every render tick the bloom strength last handed to
\* PostFX.setBloom equals the crystal's bloomStrength.
C22_GlowFeedbackPerRenderTick ==
  [][animate(0) => postfxBloom' = crystal'.bloomStrength]_vars

\* The GPU resources an instance owns, each released by its own dispose().
Parts == {"geometry", "material"}

AllKeys(c) == UNION {KeysOf(c, kind) : kind \in Kinds}

ResourcesOf(keys) == {<<key[1], key[2], part>> : key \in keys, part \in Parts}

\* The dispose() calls of a CrystalSphere.update(dt): the else branches of
\* the survivor tests, and the fade-out branch of updateRift.
disposedByResonance(c, dt) ==
  ResourcesOf({<<c.resonance[i].id, c.resonance[i].k>> :
                 i \in {j \in 1..Len(c.resonance) :
                          /\ ~(c.resonance[j].delay > 0)
                          /\ ~(ringStep(c.resonance[j], dt).life > 0)}})

disposedByPrism(c, dt) ==
  ResourcesOf({<<c.prism[i].id, 0>> :
                 i \in {j \in 1..Len(c.prism) : ~(rayStep(c.prism[j], dt).life > 0)}})

disposedByRift(c, dt) ==
  IF Len(c.rift) > 0 /\ c.rift[1].opacity - riftFade(dt) <= 0
  THEN ResourcesOf({<<c.rift[1].id, 0>>})
  ELSE {}

disposedBySpikes_None(c, dt) == {}

disposedBySpikes(c, dt) ==
  ResourcesOf({<<c.spikes[i].id, 0>> :
                 i \in {j \in 1..Len(c.spikes) : ~(spikeStep(c.spikes[j], dt).life > 0)}})

disposedByUpdate(c, dt) ==
  disposedByResonance(c, dt) \cup disposedByPrism(c, dt)
    \cup disposedByRift(c, dt) \cup disposedBySpikes(c, dt)

\* clearAllEffects: geometry.dispose?.() and material.dispose?.() of every
\* child of every group.
disposedByClear(c) == ResourcesOf(AllKeys(c))

\* C23: in every render tick and every analysis tick, the geometries and
\* materials disposed by the call are exactly those of the instances that
\* the call takes out of the pools: none removed without both disposed,
\* none disposed and left in a pool.
C23_SynchronousRelease ==
  [][/\ animate(0)
          => ResourcesOf(AllKeys(crystal) \ AllKeys(crystal')) = disposedByUpdate(crystal, Dt)
     /\ \A f \in PoolFrames, st \in SceneSteps :
          updateFromAudio(f, st)
            => ResourcesOf(AllKeys(crystal) \ AllKeys(crystal'))
                 = IF lastEffectSwitchAt' # lastEffectSwitchAt
                   THEN disposedByClear(crystal) ELSE {}]_vars

\* The nebula of the active Rift has faded out and been removed by a
\* render tick, after an earlier kind had been cleared by the switch.
C23_Witness ==
  /\ crystal.activeEffect = "rift"
  /\ prevEffectChangedAt # -1
  /\ Len(crystal.rift) = 0
  /\ crystal.bloomStrength = 120

\* How many times the tick invoked a callback.
Invocations(seq, cb) == Cardinality({i \in 1..Len(seq) : seq[i] = cb})

\* C24: a step that publishes a frame invokes each callback held by
\* this.callbacks exactly once and no other callback; no step invokes a
\* callback without publishing a frame; and the unsubscribe function takes
\* its callback out of this.callbacks, so that no later frame reaches it
\* until onFrame registers it again.
C24_FrameSubscription ==
  [][/\ calls' # calls
          => \A cb \in CallbackIds :
               Invocations(deliveredTo', cb) = IF cb \in Range(callbacks) THEN 1 ELSE 0
     /\ calls' = calls => deliveredTo' = deliveredTo
     /\ \A cb \in CallbackIds : offFrame(cb) => cb \notin Range(callbacks')]_vars

\* Both callbacks were subscribed and one has unsubscribed; the frames
\* published since went to the other alone.
C24_Witness ==
  /\ calls >= 2
  /\ callbacks = <<"other">>
  /\ deliveredTo = <<"other">>

\* energy > mean + k * stddev over the window `hist`, with the variance
\* floored at 1e-8 and k = 2.0 - 1.5 * sensitivity (sens in tenths):
\* with d = n * energy - sum and k > 0, it is d > 0 and
\* (20 d)^2 > (20 k)^2 * max(n * sumSquares - sum^2, n^2 * 1e-8).
ExceedsThreshold(hist, energy, sens) ==
  LET n == Len(hist)
      d == n * energy - SumSeq(hist)
      spread == n * SumSquares(hist) - SumSeq(hist) * SumSeq(hist)
      floored == IF spread > n * n THEN spread ELSE n * n
  IN d > 0 /\ 400 * d * d > (40 - 3 * sens) * (40 - 3 * sens) * floored

\* C25 as stated: a detectBeat call that leaves at least 8 samples in the
\* history returns true exactly when the energy exceeds the threshold and
\* at least 120 ms have passed since the last fired beat; lastBeatAt
\* changes only in a call that returns true.
C25_BeatDecision ==
  [][\A e \in Energies, st \in TimeSteps :
       detectBeat(e, st)
         => /\ Len(energyHistory') >= 8
                 => (isBeat' <=> /\ ExceedsThreshold(energyHistory', e, beatSensitivity)
                                 /\ nowSec' - lastBeatAt >= 120)
            /\ lastBeatAt' # lastBeatAt => isBeat']_vars

\* C25 amended: the same with more than 120 ms since the last fired beat.
C25_BeatDecisionStrictInterval ==
  [][\A e \in Energies, st \in TimeSteps :
       detectBeat(e, st)
         => /\ Len(energyHistory') >= 8
                 => (isBeat' <=> /\ ExceedsThreshold(energyHistory', e, beatSensitivity)
                                 /\ nowSec' - lastBeatAt > 120)
            /\ lastBeatAt' # lastBeatAt => isBeat']_vars

\* A call has just been refused a beat by the interval alone: its energy
\* exceeds the threshold of its window, exactly 120 ms after the last beat.
C25_Witness ==
  /\ Len(energyHistory) >= 8
  /\ ~isBeat
  /\ nowSec - lastBeatAt = 120
  /\ ExceedsThreshold(energyHistory, energyHistory[Len(energyHistory)], beatSensitivity)

\* The newest 43 of the samples pushed so far, oldest first.
Newest43(hist, energy) ==
  LET all == Append(hist, energy)
  IN SubSeq(all, Max(1, Len(all) - 42), Len(all))

\* C26: every detectBeat call leaves in the history the newest 43 of the
\* samples so far, in arrival order, so never more than 43; and a call that
\* leaves fewer than 8 samples returns false.
C26_BoundedHistory ==
  [][\A e \in Energies, st \in TimeSteps :
       detectBeat(e, st)
         => /\ Len(energyHistory') <= 43
            /\ energyHistory' = Newest43(energyHistory, e)
            /\ Len(energyHistory') < 8 => ~isBeat']_vars

\* The history is full and has evicted its oldest samples: it began at 41
\* samples and four calls later ends with the loud sample just pushed.
C26_Witness ==
  /\ Len(energyHistory) = 43
  /\ calls >= 4
  /\ energyHistory[1] < 50 - 1
  /\ energyHistory[43] = 20

\* C27: the stored sensitivity is always in [0, 1] (0..10 tenths) and k in
\* [0.5, 2.0]; and in every detectBeat call, with the history, the energy,
\* the time and the last firing time of that call, a detector of lower
\* sensitivity fires only if the detector one tenth more sensitive fires,
\* hence only if every detector of higher sensitivity fires.
C27_SensitivityMonotone ==
  /\ [](beatSensitivity \in 0..10 /\ kTimes20(beatSensitivity) \in 10..40)
  /\ [][\A e \in Energies, st \in TimeSteps :
          detectBeat(e, st)
            => \A lower \in 0..9 :
                 beatDecision(energyHistory', e, nowSec', lastBeatAt, lower)
                   => beatDecision(energyHistory', e, nowSec', lastBeatAt, lower + 1)]_vars

\* A beat has just fired at the highest sensitivity, set by a clamped call,
\* on a sample that the lowest sensitivity would not have taken for a beat.
C27_Witness ==
  /\ isBeat
  /\ beatSensitivity = 10
  /\ ExceedsThreshold(energyHistory, energyHistory[Len(energyHistory)], 10)
  /\ ~ExceedsThreshold(energyHistory, energyHistory[Len(energyHistory)], 0)

\* The beat flag of the most recently published frame: the frames of
\* LabelFrames differ in their bands, so the slot tells which one it was.
LatestFrameBeat == \E f \in LabelFrames : BandsOf(f) = last /\ f.beat

\* The label the claim's ladder gives for the slot's values and a beat flag.
LadderLabel(beat) ==
  IF beat /\ last.high > 50 /\ last.mid < 60 THEN "drums"
  ELSE IF last.low > 45 /\ last.mid < 35 THEN "bass"
  ELSE IF last.mid > 50 /\ last.high < 50 THEN "guitar"
  ELSE "none"

\* C28 as stated: a render tick leaves the held label as it was or sets it
\* to the label the ladder gives for the most recently published frame and
\* that frame's beat flag; so a render tick turns the label to Drums only
\* when that frame has beat = true.
C28_ClassifierInput ==
  [][animate(0)
       => /\ current' \in {current, LadderLabel(LatestFrameBeat)}
          /\ (current' = "drums" /\ current # "drums") => LatestFrameBeat]_vars

\* C29: an updateFromAudio call in which chooseEffect gives no choice, or
\* the active kind, or in which no more than the hold (3 s) has passed since
\* the last switch, leaves the active kind and the time of the last switch
\* as they were and keeps every instance in its pool; and no step at all
\* takes the active kind from a non-Idle kind to Idle.
C29_NoSwitchFrame ==
  [][/\ \A f \in PoolFrames, st \in SceneSteps :
          (/\ updateFromAudio(f, st)
           /\ \/ chooseEffect(f.low, f.mid, f.high, f.rms, f.beat) = "null"
              \/ chooseEffect(f.low, f.mid, f.high, f.rms, f.beat) = crystal.activeEffect
              \/ ~(clock' - lastEffectSwitchAt > 1800))
            => /\ crystal'.activeEffect = crystal.activeEffect
               /\ lastEffectSwitchAt' = lastEffectSwitchAt
               /\ AllKeys(crystal) \subseteq AllKeys(crystal')
     /\ crystal.activeEffect # "idle" => crystal'.activeEffect # "idle"]_vars

\* Spikes is still active, its spikes drained by render ticks, after a tick
\* that chose Rift 1.67 s after the switch, too early for the hold.
C29_Witness ==
  /\ crystal.activeEffect = "spikes"
  /\ last = BandsOf(RiftFrame)
  /\ clock - lastEffectSwitchAt = 1000
  /\ Len(crystal.spikes) = 0

\* C30: in every state a pool holds instances only if it is the pool of the
\* active kind, so at most one pool is non-empty; and the instances a step
\* adds are all in the pool of the kind active after the step.
C30_PoolExclusivity ==
  /\ [](\A kind \in Kinds : Len(PoolOf(crystal, kind)) > 0 => crystal.activeEffect = kind)
  /\ [][\A kind \in Kinds :
          KeysOf(crystal', kind) \ AllKeys(crystal) # {} => crystal'.activeEffect = kind]_vars

\* Prism is active after a switch from an earlier kind and holds its
\* activation batch and a reinforcing emission; the other pools are empty.
C30_Witness ==
  /\ crystal.activeEffect = "prism"
  /\ prevEffectChangedAt # -1
  /\ Len(crystal.prism) = 2
  /\ Len(crystal.resonance) + Len(crystal.rift) + Len(crystal.spikes) = 0

\* ---------------------------------------------------------------------- C31
\* C31 Pool size bound: each effect pool's instance count never exceeds a
\* fixed upper bound, for any sequence of feature frames and any relative
\* rate of analysis and render ticks; an emission request that would exceed
\* the bound is dropped.  A fixed bound is one the exploration's horizon does
\* not move: some count below MaxGrowth emission calls that no pool exceeds,
\* and an analysis tick that finds a pool at it adds nothing to that pool.
PoolSizes(c) ==
  {Cardinality(SeqIds(c.resonance)), Len(c.prism), Len(c.rift), Len(c.spikes)}

C31_PoolSizeBound == \A size \in PoolSizes(crystal) : size < MaxGrowth

\* ---------------------------------------------------------------------- C32
\* C32 Glow follows the active effect: the crystal's bloomStrength equals the
\* level of a kind (Resonance 1.3, Prism 1.35, Rift 1.6, Spikes 1.4) in every
\* state where that kind's pool holds at least one live instance, and equals
\* the idle level 1.2 in every state where all pools are empty.
BloomLevel(kind) ==
  CASE kind = "resonance" -> 130
    [] kind = "prism" -> 135
    [] kind = "rift" -> 160
    [] kind = "spikes" -> 140

C32_GlowFollowsEffect ==
  /\ \A kind \in Kinds :
       Len(PoolOf(crystal, kind)) > 0 => crystal.bloomStrength = BloomLevel(kind)
  /\ PoolsEmpty(crystal) => crystal.bloomStrength = 120

\* ---------------------------------------------------------------------- C33
\* C33 Resonance lifecycle: a ring's life stays at 1 on every tick where its
\* remaining delay is still positive; once the delay has elapsed its life
\* decreases by 0.6*dt on every tick, its scale is 0.1 + (1 - life)*1.4, and
\* it is removed on the first tick where life <= 0; so every ring is
\* destroyed after at most (delay ticks + ceil(1/(0.6*dt))) ticks: the ticks
\* a ring has left start at that number and fall by one on every tick.
CeilDiv(a, b) == (a + b - 1) \div b

RingLifeStep == (Dt * 6) \div 10

RingTicksLeft(w) == CeilDiv(Max(w.delay, 0), Dt) + CeilDiv(w.life, RingLifeStep)

RingTicksBound(w) == CeilDiv(w.k * ringDelay, Dt) + CeilDiv(One, RingLifeStep)

RingsWithKey(pool, key) ==
  {pool[j] : j \in {n \in 1..Len(pool) : <<pool[n].id, pool[n].k>> = key}}

C33_ResonanceLifecycle ==
  /\ [](\A i \in 1..Len(crystal.resonance) :
          LET w == crystal.resonance[i]
          IN /\ w.life > 0
             /\ w.delay > 0 => w.life = One
             /\ w.scale = One + (One - w.life) * 14
             /\ RingTicksLeft(w) <= RingTicksBound(w))
  /\ [][animate(0) =>
          \A i \in 1..Len(crystal.resonance) :
             LET w == crystal.resonance[i]
                 after == RingsWithKey(crystal'.resonance, <<w.id, w.k>>)
             IN IF w.delay > 0
                THEN after = {[w EXCEPT !.delay = @ - Dt]}
                ELSE IF w.life - RingLifeStep > 0
                THEN /\ Cardinality(after) = 1
                     /\ \A a \in after :
                          /\ a.life = w.life - RingLifeStep
                          /\ a.scale = One + (One - a.life) * 14
                          /\ RingTicksLeft(a) = RingTicksLeft(w) - 1
                ELSE after = {} /\ RingTicksLeft(w) = 1]_vars

\* The last staggered ring of an activation has waited out its delay and
\* aged to its last tick.
C33_Witness ==
  \E i \in 1..Len(crystal.resonance) :
     /\ crystal.resonance[i].k = 2
     /\ crystal.resonance[i].delay <= 0
     /\ crystal.resonance[i].life <= RingLifeStep

\* ---------------------------------------------------------------------- C34
\* C34 Prism lifecycle: each ray starts with phase 0 and life 1; on every tick
\* phase grows by 3.5*dt; while phase < 1 the life is unchanged and opacity
\* equals phase; on every tick with phase >= 1 life decreases by 0.9*dt and
\* opacity equals max(0, life); the ray is removed on the first tick where
\* life <= 0; so every ray is destroyed after a bounded number of ticks: the
\* ticks a ray has left start at the fade-in ticks plus ceil(1/(0.9*dt)) and
\* fall by one on every tick.
RayPhaseStep == (Dt * 35) \div 10

RayLifeStep == (Dt * 9) \div 10

RayTicksLeft(r) ==
  (IF r.phase < One THEN CeilDiv(One - r.phase, RayPhaseStep) - 1 ELSE 0)
    + CeilDiv(r.life, RayLifeStep)

RayTicksBound == (CeilDiv(One, RayPhaseStep) - 1) + CeilDiv(One, RayLifeStep)

RaysWithId(pool, id) == {pool[j] : j \in {n \in 1..Len(pool) : pool[n].id = id}}

C34_PrismLifecycle ==
  /\ [](\A i \in 1..Len(crystal.prism) :
          LET r == crystal.prism[i]
          IN /\ r.life > 0
             /\ r.phase < One => r.life = One /\ r.opacity = r.phase
             /\ r.phase >= One => r.opacity = Max(0, r.life)
             /\ RayTicksLeft(r) <= RayTicksBound)
  /\ [][/\ \A i \in 1..Len(crystal'.prism) :
             LET r == crystal'.prism[i]
             IN RaysWithId(crystal.prism, r.id) = {} =>
                  r.phase = 0 /\ r.life = One /\ r.opacity = 0
        /\ animate(0) =>
             \A i \in 1..Len(crystal.prism) :
                LET r == crystal.prism[i]
                    phase == r.phase + RayPhaseStep
                    after == RaysWithId(crystal'.prism, r.id)
                IN IF phase < One
                   THEN after = {[r EXCEPT !.phase = phase, !.opacity = phase]}
                   ELSE IF r.life - RayLifeStep > 0
                   THEN /\ after = {[r EXCEPT !.phase = phase,
                                              !.life = r.life - RayLifeStep,
                                              !.opacity = Max(0, r.life - RayLifeStep)]}
                        /\ \A a \in after : RayTicksLeft(a) = RayTicksLeft(r) - 1
                   ELSE after = {} /\ RayTicksLeft(r) = 1]_vars

\* A ray has faded in and aged to its last tick.
C34_Witness ==
  \E i \in 1..Len(crystal.prism) :
     crystal.prism[i].phase >= One /\ crystal.prism[i].life <= RayLifeStep

\* ---------------------------------------------------------------------- C35
\* C35 Spike opacity envelope: after every updateSpikes call each surviving
\* spike has opacity in [0,1] and opacity <= life; opacity starts at 0 at
\* creation and rises by at most 2*dt per tick, life starts at 1 and falls
\* by 0.8*dt per tick, and the spike is removed on the first tick where
\* life <= 0.
SpikeLifeStep == (Dt * 8) \div 10

SpikesWithId(pool, id) == {pool[j] : j \in {n \in 1..Len(pool) : pool[n].id = id}}

C35_SpikeOpacityEnvelope ==
  /\ [](\A i \in 1..Len(crystal.spikes) :
          LET s == crystal.spikes[i]
          IN 0 <= s.opacity /\ s.opacity <= One /\ s.opacity <= s.life)
  /\ [][/\ \A i \in 1..Len(crystal'.spikes) :
             LET s == crystal'.spikes[i]
             IN SpikesWithId(crystal.spikes, s.id) = {} => s.opacity = 0 /\ s.life = One
        /\ animate(0) =>
             \A i \in 1..Len(crystal.spikes) :
                LET s == crystal.spikes[i]
                    after == SpikesWithId(crystal'.spikes, s.id)
                IN IF s.life - SpikeLifeStep > 0
                   THEN /\ Cardinality(after) = 1
                        /\ \A a \in after :
                             /\ a.life = s.life - SpikeLifeStep
                             /\ a.opacity <= s.opacity + 2 * Dt
                   ELSE after = {}]_vars

\* A spike past its ramp-in whose opacity the remaining life holds down.
C35_Witness ==
  \E i \in 1..Len(crystal.spikes) :
     /\ crystal.spikes[i].opacity = crystal.spikes[i].life
     /\ crystal.spikes[i].life < One \div 2

\* ---------------------------------------------------------------------- C36
\* C36 Band partition: for a frequency buffer of any length N >= 1,
\* computeBands averages the three contiguous bin ranges [0, t), [t, 2t) and
\* [2t, N) with t = floor(N/3), which are disjoint and together cover every
\* bin exactly once; each of low, mid, high and rms lies in [0,1] for byte
\* inputs, and a range that contains no bin contributes 0.
BandRanges(n) ==
  LET t == n \div 3
  IN <<0..(t - 1), t..(2 * t - 1), (2 * t)..(n - 1)>>

RECURSIVE SumBins(_, _)
SumBins(arr, bins) ==
  IF bins = {} THEN 0
  ELSE LET b == CHOOSE x \in bins : TRUE
       IN arr[b + 1] + SumBins(arr, bins \ {b})

\* The mean of the bins' bytes as a fraction of 255, in hundredths.
MeanOfBins(arr, bins) ==
  IF bins = {} THEN 0 ELSE (SumBins(arr, bins) * 100) \div (Cardinality(bins) * 255)

InUnitRange(x) == ~x.nan /\ 0 <= x.v /\ x.v <= 100

C36_BandPartition ==
  [][extract =>
       LET n == Len(freqData)
           r == BandRanges(n)
       IN n >= 1 =>
            /\ r[1] \cap r[2] = {} /\ r[1] \cap r[3] = {} /\ r[2] \cap r[3] = {}
            /\ r[1] \cup r[2] \cup r[3] = 0..(n - 1)
            /\ features'.low = Num(MeanOfBins(freqData, r[1]))
            /\ features'.mid = Num(MeanOfBins(freqData, r[2]))
            /\ features'.high = Num(MeanOfBins(freqData, r[3]))
            /\ InUnitRange(features'.low) /\ InUnitRange(features'.mid)
            /\ InUnitRange(features'.high) /\ InUnitRange(features'.rms)]_vars

\* The bands of a buffer whose length is no multiple of 3, its last range
\* the longest, have been computed and differ from each other.
C36_Witness ==
  /\ Len(freqData) = 5
  /\ features.low = Num(100)
  /\ features.mid = Num(0)
  /\ features.high = Num(66)

\* ---------------------------------------------------------------------- C37
\* C37 Single tick loop: under any interleaving of start(), startTestTone(),
\* startFromMediaStream(), stop() and loadFile() calls, including calls made
\* from inside an onFrame callback and calls overlapping a pending await, at
\* most one analysis tick is scheduled at any time (so an animation frame
\* publishes at most one frame and pushes at most one energy sample).
C37_SingleTickLoop == frameQueue <= 1

\* ---------------------------------------------------------------------- C38
\* C38 Latest file wins: after loadFile(F) has returned, the next playback
\* that begins plays F, and F is never discarded unplayed, also when
\* loadFile is interleaved with a start() call that still awaits the decode
\* of an earlier file; and two overlapping start() calls never leave more
\* than one buffer source playing.  That is: the remembered file leaves
\* this.pendingFile only by a newer loadFile or into the source node that is
\* to play it; a playback begins with no file still waiting; and at most
\* one started source node exists.
PlayingSources == Len(orphans) + (IF sourceNode = "started" THEN 1 ELSE 0)

PlaybackBegins == sourceNode' = "started" /\ (sourceNode # "started" \/ orphans' # orphans)

C38_LatestFileWins ==
  /\ [](PlayingSources <= 1)
  /\ [][/\ (pendingFile # "none" /\ pendingFile' = "none") => sourceFile' = pendingFile
        /\ PlaybackBegins => pendingFile' = "none"]_vars

====
